---- MODULE Spec2Model ----
(***************************************************************************)
(* pack: seal input artifacts into an evidence pack directory and verify   *)
(* a pack directory against its manifest.                                 *)
(*                                                                         *)
(* The model follows the pipeline the binary runs:                         *)
(*   seal   : src/src/seal/{command,collect,collision,copy,finalize,       *)
(*            manifest}.rs and src/src/detect/member_type.rs               *)
(*   verify : src/src/verify/{command,checks,schema,report}.rs             *)
(*                                                                         *)
(* Strings are kept in split form: a string is the sequence of its         *)
(* "/"-separated segments ("d/f" is <<"d","f">>, "" is <<"">>, "/x" is     *)
(* <<"","x">>), so that str::split('/') and Path::join are computed        *)
(* rather than assumed.  Byte order of strings is computed from the UTF-8  *)
(* bytes of the segments.                                                  *)
(***************************************************************************)
EXTENDS Integers, Sequences, FiniteSets, TLC

\* ------------------------------------------------------------------ bounds
\* longest list of artifact arguments given to seal
MaxInputs == 2
\* number of modifications the environment makes to a pack directory
MaxTamper == 1
\* longest member list of a manifest given to diff
MaxMembers == 2
\* most records the witness ledger comes to hold
MaxLedger == 2

\* ------------------------------------------------------- strings and bytes
\* UTF-8 bytes of the path segments the model uses.
NameBytes(n) ==
  CASE n = "" -> <<>>
    [] n = "." -> <<46>>
    [] n = ".." -> <<46, 46>>
    [] n = "a" -> <<97>>
    [] n = "b" -> <<98>>
    [] n = "d" -> <<100>>
    [] n = "d.x" -> <<100, 46, 120>>
    [] n = "e" -> <<101>>
    [] n = "f" -> <<102>>
    [] n = "g" -> <<103>>
    [] n = "ln" -> <<108, 110>>
    [] n = "manifest.json" -> <<109, 97, 110, 105, 102, 101, 115, 116, 46, 106, 115, 111, 110>>
    [] n = "nope" -> <<110, 111, 112, 101>>
    [] n = "old" -> <<111, 108, 100>>
    [] n = "p" -> <<112>>
    [] n = "sub" -> <<115, 117, 98>>
    [] n = "x" -> <<120>>
    [] OTHER -> <<63>>

RECURSIVE StrBytes(_)
\* bytes of a split-form string: the segments joined by "/" (0x2F)
StrBytes(p) ==
  IF Len(p) = 0 THEN <<>>
  ELSE IF Len(p) = 1 THEN NameBytes(p[1])
  ELSE NameBytes(p[1]) \o <<47>> \o StrBytes(Tail(p))

RECURSIVE BytesLess(_, _)
\* strict bytewise (lexicographic) order, as str::cmp / OsString::cmp
BytesLess(s, t) ==
  IF t = <<>> THEN FALSE
  ELSE IF s = <<>> THEN TRUE
  ELSE IF s[1] # t[1] THEN s[1] < t[1]
  ELSE BytesLess(Tail(s), Tail(t))

StrLess(p, q) == BytesLess(StrBytes(p), StrBytes(q))

RECURSIVE SortNames(_)
\* the names of a set in ascending byte order
SortNames(S) ==
  IF S = {} THEN <<>>
  ELSE LET m == CHOOSE x \in S : \A y \in S : x = y \/ BytesLess(NameBytes(x), NameBytes(y))
       IN  <<m>> \o SortNames(S \ {m})

RECURSIVE Reverse(_)
Reverse(s) == IF s = <<>> THEN <<>> ELSE Reverse(Tail(s)) \o <<Head(s)>>

\* ------------------------------------------------------------ JSON values
\* A JSON value.  t: "str" | "num" | "arr" | "null".  A string whose h is
\* non-empty is "sha256:" followed by the hex SHA-256 of the bytes h[1].
Str(s)  == [t |-> "str", s |-> s, n |-> 0, a |-> <<>>, h |-> <<>>]
Num(n)  == [t |-> "num", s |-> <<>>, n |-> n, a |-> <<>>, h |-> <<>>]
Arr(a)  == [t |-> "arr", s |-> <<>>, n |-> 0, a |-> a, h |-> <<>>]
Null    == [t |-> "null", s |-> <<>>, n |-> 0, a |-> <<>>, h |-> <<>>]
Lit(w)  == Str(<<w>>)
EmptyString == Str(<<"">>)

\* File contents.  kind "json": a JSON object, obj its <<key, value>> pairs
\* in textual order.  kind "raw": other bytes, told apart by raw:
\*   0 the empty file, 1 and 2 plain UTF-8 text, 3 bytes that are not UTF-8,
\*   4 UTF-8 text holding lines "schema_version: .." and "profile_id: ..".
Raw(i)   == [kind |-> "raw", raw |-> i, obj |-> <<>>]
Json(ps) == [kind |-> "json", raw |-> 0, obj |-> ps]

IsUtf8(c) == ~(c.kind = "raw" /\ c.raw = 3)

\* SHA-256 is modelled as collision free: the digest stands for its preimage.
sha256_hex(bytes) == <<bytes>>
\* format!("sha256:{hash}")
Sha256String(bytes) ==
  [t |-> "str", s |-> <<"sha256:">>, n |-> 0, a |-> <<>>, h |-> sha256_hex(bytes)]

HasKey(obj, k) == \E i \in 1..Len(obj) : obj[i][1] = k
KeyCount(obj, k) == Cardinality({i \in 1..Len(obj) : obj[i][1] = k})
\* serde_json::Value::get: the last occurrence of a key wins
Get(obj, k) ==
  LET i == CHOOSE j \in 1..Len(obj) :
             obj[j][1] = k /\ \A l \in (j+1)..Len(obj) : obj[l][1] # k
  IN  obj[i][2]

\* ------------------------------------------------------------ file trees
\* A tree maps paths (sequences of names, <<>> the root) to nodes.
\* kind: "file" | "dir" | "symlink".  A symlink's link says what it points
\* to ("file", "dir" or "dangling"); data is then the bytes of that file.
FileNode(c)    == [kind |-> "file", data |-> c, link |-> "none"]
DirNode        == [kind |-> "dir", data |-> Raw(0), link |-> "none"]
SymlinkNode(l, c) == [kind |-> "symlink", data |-> c, link |-> l]
\* a named pipe: neither file, directory nor link
FifoNode       == [kind |-> "fifo", data |-> Raw(0), link |-> "none"]

IsPrefix(p, q) == Len(p) <= Len(q) /\ SubSeq(q, 1, Len(p)) = p
Prefixes(p)    == {SubSeq(p, 1, k) : k \in 0..Len(p)}
Parent(p)      == SubSeq(p, 1, Len(p) - 1)
Last(p)        == p[Len(p)]

\* Path::exists / Path::is_dir / Path::is_file: these follow symbolic links
Exists(t, p)  == p \in DOMAIN t /\ ~(t[p].kind = "symlink" /\ t[p].link = "dangling")
IsDir(t, p)   == p \in DOMAIN t /\ (t[p].kind = "dir" \/ (t[p].kind = "symlink" /\ t[p].link = "dir"))
IsFile(t, p)  == p \in DOMAIN t /\ (t[p].kind = "file" \/ (t[p].kind = "symlink" /\ t[p].link = "file"))

\* names of the entries of directory p (fs::read_dir, in no order)
ReadDir(t, p) == {Last(q) : q \in {r \in DOMAIN t : Len(r) = Len(p) + 1 /\ IsPrefix(p, r)}}

Put(t, p, node) == [q \in DOMAIN t \cup {p} |-> IF q = p THEN node ELSE t[q]]

\* fs::create_dir_all: fails when a component exists and is not a directory
CanCreateDirAll(t, p) == \A q \in Prefixes(p) : q \in DOMAIN t => IsDir(t, q)
CreateDirAll(t, p) ==
  [q \in DOMAIN t \cup Prefixes(p) |-> IF q \in DOMAIN t THEN t[q] ELSE DirNode]

\* remove p and everything under it (TempDir's drop, fs::remove_dir_all)
RemoveTree(t, p) == [q \in {r \in DOMAIN t : ~IsPrefix(p, r)} |-> t[q]]

\* fs::rename of directory from onto to; the caller checks that to is
\* absent or an empty directory
RenameTree(t, from, to) ==
  LET kept  == {r \in DOMAIN t : ~IsPrefix(from, r) /\ ~IsPrefix(to, r)}
      moved == {r \in DOMAIN t : IsPrefix(from, r)}
      Dest(r) == to \o SubSeq(r, Len(from) + 1, Len(r))
  IN  [q \in kept \cup {Dest(r) : r \in moved} |->
         IF q \in kept THEN t[q]
         ELSE t[CHOOSE r \in moved : Dest(r) = q]]

\* the subtree below p, with paths relative to p (empty when p is absent)
Subtree(t, p) ==
  [q \in {SubSeq(r, Len(p) + 1, Len(r)) : r \in {x \in DOMAIN t : IsPrefix(p, x)}} |-> t[p \o q]]

\* ------------------------------------------------------- the source files
\* File contents the first source file may have.
LockDoc     == Json(<< <<"version", Lit("lock.v0")>>, <<"rows", Num(5)>> >>)
RulesNoList == Json(<< <<"version", Lit("verify.rules.v0")>> >>)
RulesDoc    == Json(<< <<"version", Lit("verify.rules.v0")>>, <<"rules", Arr(<<>>)>> >>)
UnknownDoc  == Json(<< <<"version", Lit("foo.v9")>> >>)
Contents    == {Raw(0), Raw(1), LockDoc, RulesNoList}

\* The artifacts on disk: two roots s1 and s2 holding files with the same
\* names, a directory s1/d with a nested file, a file s2/d, a symlink.
SourceTree(c) ==
  (<<>> :> DirNode) @@
  (<<"s1">> :> DirNode) @@ (<<"s2">> :> DirNode) @@
  (<<"s1", "a">> :> FileNode(c)) @@
  (<<"s2", "a">> :> FileNode(Raw(2))) @@
  (<<"s1", "manifest.json">> :> FileNode(Raw(1))) @@
  (<<"s2", "manifest.json">> :> FileNode(Raw(2))) @@
  (<<"s1", "d">> :> DirNode) @@
  (<<"s1", "d", "f">> :> FileNode(RulesDoc)) @@
  (<<"s1", "d", "sub">> :> DirNode) @@
  (<<"s1", "d", "sub", "g">> :> FileNode(Raw(0))) @@
  (<<"s1", "d.x">> :> FileNode(UnknownDoc)) @@
  (<<"s2", "d">> :> FileNode(Raw(1))) @@
  (<<"s1", "ln">> :> SymlinkNode("file", Raw(1))) @@
  (<<"s2", "e">> :> DirNode) @@
  (<<"s2", "e", "b">> :> FileNode(Raw(1))) @@
  (<<"s2", "e", "ln">> :> SymlinkNode("file", Raw(1))) @@
  (<<"s2", "p">> :> FifoNode)

\* The paths seal may be given as arguments.
InputPaths ==
  { <<"s1", "a">>, <<"s2", "a">>, <<"s1", "manifest.json">>, <<"s2", "manifest.json">>,
    <<"s1", "d">>,
    <<"s1", "d.x">>, <<"s2", "d">>, <<"s1", "ln">>, <<"s1", "nope">>,
    <<"s2", "e">>, <<"s2", "p">> }

InputLists == UNION {[1..k -> InputPaths] : k \in 0..MaxInputs}

\* ------------------------------------------------------------ refusals
\* RefusalEnvelope: the code and, for E_DUPLICATE, the detail object.
NoDetail == [path |-> <<>>, sources |-> <<>>]
Refusal(code, detail) == [code |-> code, detail |-> detail]

\* ------------------------------------------------------------- collection
Candidate(source, member_path) == [source |-> source, member_path |-> member_path]
CollectOk(cands) == [ok |-> TRUE, code |-> "", cands |-> cands]
CollectErr(code) == [ok |-> FALSE, code |-> code, cands |-> <<>>]

\* a walk that takes the regular files of dir and passes over the rest
collect_dir_files_only(t, root, dir) ==
  LET names == SortNames({n \in ReadDir(t, dir) : t[dir \o <<n>>].kind = "file"})
  IN  CollectOk([i \in 1..Len(names) |->
                  Candidate(dir \o <<names[i]>>,
                            <<Last(root)>> \o SubSeq(dir, Len(root) + 1, Len(dir)) \o <<names[i]>>)])

RECURSIVE collect_dir(_, _, _)
RECURSIVE CollectEntries(_, _, _, _)
\* the loop of collect_dir over the sorted entries of dir.  Names in the
\* model hold no backslash, so normalize_member_path leaves them as they are.
CollectEntries(t, root, dir, names) ==
  IF names = <<>> THEN CollectOk(<<>>)
  ELSE
    LET p == dir \o <<Head(names)>>
    IN  IF t[p].kind = "symlink" THEN CollectErr("E_IO")
        ELSE IF t[p].kind = "dir" THEN
          LET sub == collect_dir(t, root, p)
          IN  IF ~sub.ok THEN sub
              ELSE LET rest == CollectEntries(t, root, dir, Tail(names))
                   IN  IF ~rest.ok THEN rest ELSE CollectOk(sub.cands \o rest.cands)
        ELSE IF t[p].kind = "file" THEN
          LET relative == SubSeq(p, Len(root) + 1, Len(p))
              cand == Candidate(p, <<Last(root)>> \o relative)
              rest == CollectEntries(t, root, dir, Tail(names))
          IN  IF ~rest.ok THEN rest ELSE CollectOk(<<cand>> \o rest.cands)
        ELSE CollectErr("E_IO")

\* walk a directory, entries sorted by file name
collect_dir(t, root, dir) == CollectEntries(t, root, dir, SortNames(ReadDir(t, dir)))

RECURSIVE CollectInputs(_, _)
\* the loop of collect_artifacts over the inputs, in argument order
CollectInputs(t, inputs) ==
  IF inputs = <<>> THEN CollectOk(<<>>)
  ELSE
    LET input == Head(inputs)
    IN  IF input \notin DOMAIN t THEN CollectErr("E_IO")
        ELSE IF t[input].kind = "symlink" THEN CollectErr("E_IO")
        ELSE
          LET here == IF t[input].kind = "file" THEN CollectOk(<<Candidate(input, <<Last(input)>>)>>)
                      ELSE IF t[input].kind = "dir" THEN collect_dir(t, input, input)
                      ELSE CollectErr("E_IO")
          IN  IF ~here.ok THEN here
              ELSE LET rest == CollectInputs(t, Tail(inputs))
                   IN  IF ~rest.ok THEN rest ELSE CollectOk(here.cands \o rest.cands)

RECURSIVE InsertCandidate(_, _)
\* x goes before the first element that is not smaller than it
InsertCandidate(x, s) ==
  IF s = <<>> THEN <<x>>
  ELSE IF StrLess(Head(s).member_path, x.member_path)
       THEN <<Head(s)>> \o InsertCandidate(x, Tail(s))
       ELSE <<x>> \o s

\* the candidates left in the order they were collected
CandidatesAsCollected(s) == s

RECURSIVE SortCandidates(_)
\* candidates.sort_by(|a, b| a.member_path.cmp(&b.member_path)): stable
SortCandidates(s) ==
  IF s = <<>> THEN <<>> ELSE InsertCandidate(Head(s), SortCandidates(Tail(s)))

collect_artifacts(t, inputs) ==
  IF inputs = <<>> THEN CollectErr("E_EMPTY")
  ELSE LET r == CollectInputs(t, inputs)
       IN  IF ~r.ok THEN r ELSE CollectOk(SortCandidates(r.cands))

\* -------------------------------------------------------- collision check
RESERVED_MANIFEST_PATH == <<"manifest.json">>

\* Ok, or the refusal of the first candidate that is reserved or repeats an
\* earlier member path.
check_collisions(candidates) ==
  LET Reserved(i) == candidates[i].member_path = RESERVED_MANIFEST_PATH
      Seen(i) == \E j \in 1..(i-1) : candidates[j].member_path = candidates[i].member_path
      bad == {i \in 1..Len(candidates) : Reserved(i) \/ Seen(i)}
  IN  IF bad = {} THEN [ok |-> TRUE, refusal |-> Refusal("", NoDetail)]
      ELSE
        LET i == CHOOSE k \in bad : \A l \in bad : k <= l
            same == SelectSeq(candidates, LAMBDA c : c.member_path = candidates[i].member_path)
        IN  IF Reserved(i)
            THEN [ok |-> FALSE,
                  refusal |-> Refusal("E_DUPLICATE",
                     [path |-> <<RESERVED_MANIFEST_PATH>>, sources |-> <<candidates[i].source>>])]
            ELSE [ok |-> FALSE,
                  refusal |-> Refusal("E_DUPLICATE",
                     [path |-> <<candidates[i].member_path>>,
                      sources |-> [k \in 1..Len(same) |-> same[k].source]])]

\* -------------------------------------------------------- type detection
MemberTypeResult(member_type, artifact_version) ==
  [member_type |-> member_type, artifact_version |-> artifact_version]

\* the marker strings detect_from_json and schema_for_version know
KnownMarkers ==
  {"lock.v0", "rvl.v0", "shape.v0", "verify.v0", "compare.v0", "canon.v0",
   "assess.v0", "verify.rules.v0", "pack.v0"}

\* value.get("version")?.as_str()? of a parsed document, <<>> when absent
VersionOf(c) ==
  IF c.kind = "json" /\ HasKey(c.obj, "version") /\ Get(c.obj, "version").t = "str"
     /\ Get(c.obj, "version").h = <<>> /\ Len(Get(c.obj, "version").s) = 1
  THEN <<Get(c.obj, "version").s[1]>>
  ELSE <<>>

\* a detection that takes any string in "version" for a marker of an artifact
detect_from_json_any_marker(c) ==
  LET v == VersionOf(c)
  IN  IF v = <<>> THEN <<>>
      ELSE IF v[1] = "lock.v0" THEN <<MemberTypeResult(Lit("lockfile"), <<Lit("lock.v0")>>)>>
      ELSE IF v[1] = "verify.rules.v0"
           THEN <<MemberTypeResult(Lit("rules"), <<Lit("verify.rules.v0")>>)>>
      ELSE <<MemberTypeResult(Lit("artifact"), <<Lit(v[1])>>)>>

\* <<>> is None
detect_from_json(c) ==
  LET v == VersionOf(c)
  IN  IF v = <<>> THEN <<>>
      ELSE IF v[1] = "lock.v0" THEN <<MemberTypeResult(Lit("lockfile"), <<Lit("lock.v0")>>)>>
      ELSE IF v[1] \in {"rvl.v0", "shape.v0", "verify.v0", "compare.v0"}
           THEN <<MemberTypeResult(Lit("report"), <<Lit(v[1])>>)>>
      ELSE IF v[1] \in {"canon.v0", "assess.v0"}
           THEN <<MemberTypeResult(Lit("artifact"), <<Lit(v[1])>>)>>
      ELSE IF v[1] = "verify.rules.v0"
           THEN <<MemberTypeResult(Lit("rules"), <<Lit("verify.rules.v0")>>)>>
      ELSE IF v[1] = "pack.v0" THEN <<MemberTypeResult(Lit("pack"), <<Lit("pack.v0")>>)>>
      ELSE <<>>

\* a line starting "schema_version:" and one starting "profile_id:"
detect_from_yaml(c) ==
  IF c.kind = "raw" /\ c.raw = 4 THEN <<MemberTypeResult(Lit("profile"), <<>>)>> ELSE <<>>

is_registry_path(path) ==
  \/ Last(path) \in {"registry.json", "x.registry.json"}
  \/ \E i \in 1..(Len(path) - 1) : path[i] \in {"registry", "my_registry"}

detect_member_type(content, path) ==
  IF IsUtf8(content) /\ detect_from_json(content) # <<>> THEN detect_from_json(content)[1]
  ELSE IF IsUtf8(content) /\ detect_from_yaml(content) # <<>> THEN detect_from_yaml(content)[1]
  ELSE IF is_registry_path(path) THEN MemberTypeResult(Lit("registry"), <<>>)
  ELSE MemberTypeResult(Lit("other"), <<>>)

\* --------------------------------------------------------------- manifest
MANIFEST_VERSION == Lit("pack.v0")

Member(path, bytes_hash, member_type, artifact_version) ==
  [path |-> path, bytes_hash |-> bytes_hash, member_type |-> member_type,
   artifact_version |-> artifact_version]

\* Manifest::new: pack_id empty, member_count the length of members
ManifestNew(created, note, tool_version, members) ==
  [version |-> MANIFEST_VERSION, pack_id |-> EmptyString, created |-> created,
   note |-> note, tool_version |-> tool_version, members |-> members,
   member_count |-> Len(members)]

\* serde Serialize of Member and Manifest, fields in declaration order; an
\* Option that is None is skipped
MemberToValue(m) ==
  << <<"path", Str(m.path)>>, <<"bytes_hash", m.bytes_hash>>, <<"type", m.member_type>> >>
  \o (IF m.artifact_version = <<>> THEN <<>> ELSE << <<"artifact_version", m.artifact_version[1]>> >>)

ManifestToValue(m) ==
  << <<"version", m.version>>, <<"pack_id", m.pack_id>>, <<"created", m.created>> >>
  \o (IF m.note = <<>> THEN <<>> ELSE << <<"note", m.note[1]>> >>)
  \o << <<"tool_version", m.tool_version>>,
        <<"members", Arr([i \in 1..Len(m.members) |-> MemberToValue(m.members[i])])>>,
        <<"member_count", Num(m.member_count)>> >>

\* the manifest's keys in ascending byte order
KeyOrder ==
  <<"artifact_version", "bytes_hash", "created", "member_count", "members", "note",
    "pack_id", "path", "tool_version", "type", "version">>
KeyRank(k) == IF \E i \in 1..Len(KeyOrder) : KeyOrder[i] = k
              THEN CHOOSE i \in 1..Len(KeyOrder) : KeyOrder[i] = k
              ELSE Len(KeyOrder) + 1

RECURSIVE SortPairs(_)
\* keys.sort() over the pairs of one object
SortPairs(ps) ==
  IF ps = <<>> THEN <<>>
  ELSE LET i == CHOOSE j \in 1..Len(ps) : \A l \in 1..Len(ps) : KeyRank(ps[j][1]) <= KeyRank(ps[l][1])
       IN  <<ps[i]>> \o SortPairs(SubSeq(ps, 1, i - 1) \o SubSeq(ps, i + 1, Len(ps)))

\* sorted_json: objects with sorted keys, arrays in order, no whitespace
SortedValue(v) ==
  IF v.t = "arr" THEN Arr([i \in 1..Len(v.a) |-> SortPairs(v.a[i])]) ELSE v
sorted_json(ps) ==
  LET sorted == SortPairs(ps)
  IN  Json([i \in 1..Len(sorted) |-> <<sorted[i][1], SortedValue(sorted[i][2])>>])

canonical_json(manifest) == sorted_json(ManifestToValue(manifest))

\* the pack_id taken over the fields in declaration order
ManifestFinalizeUnsorted(m) ==
  [m EXCEPT !.pack_id = Sha256String(Json(ManifestToValue([m EXCEPT !.pack_id = EmptyString])))]

\* Manifest::finalize
ManifestFinalize(m) ==
  LET blank == [m EXCEPT !.pack_id = EmptyString]
  IN  [m EXCEPT !.pack_id = Sha256String(canonical_json(blank))]

\* the hash taken with the declared pack_id left in
recompute_pack_id_kept(m) == Sha256String(canonical_json(m))

\* Manifest::recompute_pack_id
recompute_pack_id(m) ==
  Sha256String(canonical_json([m EXCEPT !.pack_id = EmptyString]))

to_canonical_bytes(m) == canonical_json(m)

\* serde Deserialize of Manifest (serde_json::from_str): every required
\* field present once with its type, unknown fields ignored, an Option
\* absent or null is None
FieldIs(obj, k, t) == KeyCount(obj, k) = 1 /\ Get(obj, k).t = t
OptionalString(obj, k) ==
  KeyCount(obj, k) = 0 \/ (KeyCount(obj, k) = 1 /\ Get(obj, k).t \in {"str", "null"})
OptionOf(obj, k) ==
  IF HasKey(obj, k) /\ Get(obj, k).t = "str" THEN <<Get(obj, k)>> ELSE <<>>

MemberParses(obj) ==
  /\ FieldIs(obj, "path", "str") /\ FieldIs(obj, "bytes_hash", "str")
  /\ FieldIs(obj, "type", "str") /\ OptionalString(obj, "artifact_version")

ManifestParses(c) ==
  /\ c.kind = "json"
  /\ FieldIs(c.obj, "version", "str") /\ FieldIs(c.obj, "pack_id", "str")
  /\ FieldIs(c.obj, "created", "str") /\ OptionalString(c.obj, "note")
  /\ FieldIs(c.obj, "tool_version", "str") /\ FieldIs(c.obj, "member_count", "num")
  /\ FieldIs(c.obj, "members", "arr")
  /\ \A i \in 1..Len(Get(c.obj, "members").a) : MemberParses(Get(c.obj, "members").a[i])

ParseMember(obj) ==
  Member(Get(obj, "path").s, Get(obj, "bytes_hash"), Get(obj, "type"),
         OptionOf(obj, "artifact_version"))

ParseManifest(c) ==
  LET ms == Get(c.obj, "members").a
  IN  [version |-> Get(c.obj, "version"), pack_id |-> Get(c.obj, "pack_id"),
       created |-> Get(c.obj, "created"), note |-> OptionOf(c.obj, "note"),
       tool_version |-> Get(c.obj, "tool_version"),
       members |-> [i \in 1..Len(ms) |-> ParseMember(ms[i])],
       member_count |-> Get(c.obj, "member_count").n]

\* ----------------------------------------------------------- path lookup
RECURSIVE Walk(_, _, _)
\* follow the segments of a path from directory cur, as the kernel does:
\* empty and "." segments stay, ".." goes up, every component passed
\* through must be a directory.  <<>> when the walk fails.
Walk(t, cur, segs) ==
  IF segs = <<>> THEN <<cur>>
  ELSE IF ~IsDir(t, cur) THEN <<>>
  ELSE IF Head(segs) \in {"", "."} THEN Walk(t, cur, Tail(segs))
  ELSE IF Head(segs) = ".." THEN Walk(t, Parent(cur), Tail(segs))
  ELSE Walk(t, cur \o <<Head(segs)>>, Tail(segs))

\* the node pack_dir.join(path) names: a path that starts with "/" replaces
\* pack_dir
Resolve(t, pack_dir, path) ==
  IF Len(path) > 1 /\ path[1] = "" THEN Walk(t, <<>>, Tail(path))
  ELSE Walk(t, pack_dir, path)

PathExists(t, pack_dir, path) ==
  Resolve(t, pack_dir, path) # <<>> /\ Exists(t, Resolve(t, pack_dir, path)[1])

\* fs::symlink_metadata: the node itself, links not followed
Lstat(t, pack_dir, path) == t[Resolve(t, pack_dir, path)[1]]

\* fs::read: <<bytes>>, or <<>> when the path is no readable file
ReadFile(t, pack_dir, path) ==
  LET r == Resolve(t, pack_dir, path)
  IN  IF r # <<>> /\ IsFile(t, r[1]) THEN <<t[r[1]].data>> ELSE <<>>

\* ------------------------------------------------------------ safe paths
\* is_safe_member_path (src/src/seal/collect.rs)
is_safe_member_path(path) ==
  /\ path # <<"">>
  /\ ~(Len(path) > 1 /\ path[1] = "")
  /\ \A i \in 1..Len(path) : path[i] # ".."

\* ------------------------------------------------------ schema validation
\* each validator gives <<>> for Ok and <<reason>> for Err
check_version_field(c, expected) ==
  IF VersionOf(c) = <<>> THEN <<Lit("missing version field")>>
  ELSE IF VersionOf(c)[1] \notin expected THEN <<Lit("unexpected version")>>
  ELSE <<>>

IsArrayField(c, k) == HasKey(c.obj, k) /\ Get(c.obj, k).t = "arr"
IsStringField(c, k) == HasKey(c.obj, k) /\ Get(c.obj, k).t = "str"

\* parse_json, then the required fields of the version
Validate(version, c) ==
  IF ~IsUtf8(c) THEN <<Lit("content is not valid UTF-8")>>
  ELSE IF c.kind # "json" THEN <<Lit("invalid JSON")>>
  ELSE IF version = "lock.v0" THEN check_version_field(c, {"lock.v0"})
  ELSE IF version \in {"rvl.v0", "shape.v0", "verify.v0", "compare.v0"}
       THEN check_version_field(c, {"rvl.v0", "shape.v0", "verify.v0", "compare.v0"})
  ELSE IF version \in {"canon.v0", "assess.v0"}
       THEN check_version_field(c, {"canon.v0", "assess.v0"})
  ELSE IF version = "verify.rules.v0"
       THEN IF check_version_field(c, {"verify.rules.v0"}) # <<>>
            THEN check_version_field(c, {"verify.rules.v0"})
            ELSE IF ~IsArrayField(c, "rules") THEN <<Lit("missing or non-array rules field")>>
            ELSE <<>>
  ELSE IF check_version_field(c, {"pack.v0"}) # <<>> THEN check_version_field(c, {"pack.v0"})
  ELSE IF ~IsStringField(c, "pack_id") THEN <<Lit("missing pack_id field")>>
  ELSE IF ~IsArrayField(c, "members") THEN <<Lit("missing or non-array members field")>>
  ELSE <<>>

\* schema_for_version: is there a validator for this artifact_version
schema_for_version(v) == v.h = <<>> /\ Len(v.s) = 1 /\ v.s[1] \in KnownMarkers

Finding(code, path, expected, actual) ==
  [code |-> code, path |-> path, expected |-> expected, actual |-> actual]

\* does validate_schemas count this member as checked
SchemaApplies(m) == m.artifact_version # <<>> /\ schema_for_version(m.artifact_version[1])

RECURSIVE SchemaFindings(_, _, _)
SchemaFindings(members, t, pack_dir) ==
  IF members = <<>> THEN <<>>
  ELSE
    LET m == Head(members)
        content == ReadFile(t, pack_dir, m.path)
        here == IF SchemaApplies(m) /\ content # <<>>
                   /\ Validate(m.artifact_version[1].s[1], content[1]) # <<>>
                THEN <<Finding("SCHEMA_VIOLATION", <<m.path>>,
                               <<Str(<<"valid schema", m.artifact_version[1].s[1]>>)>>,
                               Validate(m.artifact_version[1].s[1], content[1]))>>
                ELSE <<>>
    IN  here \o SchemaFindings(Tail(members), t, pack_dir)

\* a validation that passes a pack none of whose members has a schema
validate_schemas_no_skip(members, t, pack_dir) ==
  LET findings == SchemaFindings(members, t, pack_dir)
  IN  IF findings = <<>> THEN [outcome |-> "pass", findings |-> findings]
      ELSE [outcome |-> "fail", findings |-> findings]

\* validate_schemas: [outcome, findings]
validate_schemas(members, t, pack_dir) ==
  LET findings == SchemaFindings(members, t, pack_dir)
      checked == Cardinality({i \in 1..Len(members) : SchemaApplies(members[i])})
  IN  IF checked = 0 THEN [outcome |-> "skipped", findings |-> findings]
      ELSE IF findings = <<>> THEN [outcome |-> "pass", findings |-> findings]
      ELSE [outcome |-> "fail", findings |-> findings]

\* ------------------------------------------------------ integrity checks
\* str of a number (usize::to_string), kept apart from other strings
NumString(n) == [t |-> "str", s |-> <<"number">>, n |-> n, a |-> <<>>, h |-> <<>>]

\* check 1
CountFindings(manifest) ==
  IF manifest.member_count = Len(manifest.members) THEN <<>>
  ELSE <<Finding("MEMBER_COUNT_MISMATCH", <<>>, <<NumString(manifest.member_count)>>,
                 <<NumString(Len(manifest.members))>>)>>

RECURSIVE PathFindings(_, _)
\* check 2, members from index i on: reserved, duplicate, unsafe
PathFindings(members, i) ==
  IF i > Len(members) THEN <<>>
  ELSE
    LET path == members[i].path
        none == <<>>
    IN  (IF path = <<"manifest.json">>
         THEN <<Finding("RESERVED_MEMBER_PATH", <<path>>, none, none)>> ELSE <<>>)
     \o (IF \E j \in 1..(i-1) : members[j].path = path
         THEN <<Finding("DUPLICATE_MEMBER_PATH", <<path>>, none, none)>> ELSE <<>>)
     \o (IF ~is_safe_member_path(path)
         THEN <<Finding("UNSAFE_MEMBER_PATH", <<path>>, none, none)>> ELSE <<>>)
     \o PathFindings(members, i + 1)

\* check 3 with expected and actual the other way round
MemberFindingSwapped(m, t, pack_dir) ==
  IF ~PathExists(t, pack_dir, m.path)
  THEN <<Finding("MISSING_MEMBER", <<m.path>>, <<>>, <<>>)>>
  ELSE IF Lstat(t, pack_dir, m.path).kind # "file"
  THEN <<Finding("NON_REGULAR_MEMBER", <<m.path>>, <<>>, <<>>)>>
  ELSE
    LET content == ReadFile(t, pack_dir, m.path)
    IN  IF content # <<>> /\ Sha256String(content[1]) # m.bytes_hash
        THEN <<Finding("HASH_MISMATCH", <<m.path>>, <<Sha256String(content[1])>>,
                       <<m.bytes_hash>>)>>
        ELSE <<>>

\* check 3 for one member: missing, not regular, or hash mismatch
MemberFinding(m, t, pack_dir) ==
  IF ~PathExists(t, pack_dir, m.path)
  THEN <<Finding("MISSING_MEMBER", <<m.path>>, <<>>, <<>>)>>
  ELSE IF Lstat(t, pack_dir, m.path).kind # "file"
  THEN <<Finding("NON_REGULAR_MEMBER", <<m.path>>, <<>>, <<>>)>>
  ELSE
    LET content == ReadFile(t, pack_dir, m.path)
    IN  IF content # <<>> /\ Sha256String(content[1]) # m.bytes_hash
        THEN <<Finding("HASH_MISMATCH", <<m.path>>, <<m.bytes_hash>>,
                       <<Sha256String(content[1])>>)>>
        ELSE <<>>

RECURSIVE HashFindings(_, _, _)
HashFindings(members, t, pack_dir) ==
  IF members = <<>> THEN <<>>
  ELSE MemberFinding(Head(members), t, pack_dir) \o HashFindings(Tail(members), t, pack_dir)

\* the order fs::read_dir hands out the entries of a directory is the file
\* system's: ascending or descending by name here
DirOrder(names, asc) == IF asc THEN SortNames(names) ELSE Reverse(SortNames(names))

RECURSIVE check_extra_recursive(_, _, _, _, _)
RECURSIVE ExtraLoop(_, _, _, _, _, _)
\* the loop over the entries of dir, whose pack-relative path is prefix
ExtraLoop(t, dir, prefix, names, declared, asc) ==
  IF names = <<>> THEN <<>>
  ELSE
    LET relative == prefix \o <<Head(names)>>
        entry == dir \o <<Head(names)>>
        here == IF IsDir(t, entry) THEN check_extra_recursive(t, entry, relative, declared, asc)
                ELSE IF relative \notin declared
                THEN <<Finding("EXTRA_MEMBER", <<relative>>, <<>>, <<>>)>>
                ELSE <<>>
    IN  here \o ExtraLoop(t, dir, prefix, Tail(names), declared, asc)

\* the walk that looks at the pack root's own entries only
check_extra_root_only(t, dir, prefix, declared, asc) == <<>>

\* check_extra_recursive: the entries of dir in the order read_dir gives them
check_extra_recursive(t, dir, prefix, declared, asc) ==
  ExtraLoop(t, dir, prefix, DirOrder(ReadDir(t, dir), asc), declared, asc)

\* check 4: the entries of the pack root, manifest.json skipped
ExtraFindings(manifest, t, pack_dir, asc) ==
  LET declared == {manifest.members[i].path : i \in 1..Len(manifest.members)}
  IN  IF ~IsDir(t, pack_dir) THEN <<>>
      ELSE ExtraLoop(t, pack_dir, <<>>,
                     DirOrder(ReadDir(t, pack_dir) \ {"manifest.json"}, asc), declared, asc)

\* check 5
PackIdFindings(manifest) ==
  IF recompute_pack_id(manifest) = manifest.pack_id THEN <<>>
  ELSE <<Finding("PACK_ID_MISMATCH", <<>>, <<manifest.pack_id>>,
                 <<recompute_pack_id(manifest)>>)>>

VerifyChecks(manifest_parse, member_count, member_paths, extra_members, member_hashes, pack_id, schema_validation) ==
  [manifest_parse |-> manifest_parse, member_count |-> member_count,
   member_paths |-> member_paths, extra_members |-> extra_members,
   member_hashes |-> member_hashes, pack_id |-> pack_id,
   schema_validation |-> schema_validation]

\* VerifyChecks::default
DefaultChecks == VerifyChecks(FALSE, FALSE, FALSE, FALSE, FALSE, FALSE, "skipped")

\* run_checks: [checks, findings]
run_checks(manifest, t, pack_dir, asc) ==
  LET count  == CountFindings(manifest)
      paths  == PathFindings(manifest.members, 1)
      hashes == HashFindings(manifest.members, t, pack_dir)
      extra  == ExtraFindings(manifest, t, pack_dir, asc)
      packid == PackIdFindings(manifest)
      schema == validate_schemas(manifest.members, t, pack_dir)
  IN  [checks |-> VerifyChecks(TRUE, count = <<>>, paths = <<>>, extra = <<>>,
                               hashes = <<>>, packid = <<>>, schema.outcome),
       findings |-> count \o paths \o hashes \o extra \o packid \o schema.findings]

\* ----------------------------------------------------------------- verify
NoReport == [outcome |-> "NONE", exit_code |-> 0, pack_id |-> <<>>,
             checks |-> DefaultChecks, invalid |-> <<>>, refusal |-> <<>>]

\* VerifyReport::refusal with exit code 2
RefusalReport(code) ==
  [outcome |-> "REFUSAL", exit_code |-> 2, pack_id |-> <<>>,
   checks |-> DefaultChecks, invalid |-> <<>>, refusal |-> <<code>>]

\* the outcome taken from the member_count check alone
ChecksReportByCount(parsed, r) ==
  IF r.checks.member_count
  THEN [outcome |-> "OK", exit_code |-> 0, pack_id |-> <<parsed.pack_id>>,
        checks |-> r.checks, invalid |-> <<>>, refusal |-> <<>>]
  ELSE [outcome |-> "INVALID", exit_code |-> 1, pack_id |-> <<parsed.pack_id>>,
        checks |-> r.checks, invalid |-> r.findings, refusal |-> <<>>]

\* VerifyReport::ok / VerifyReport::invalid and the exit code of the outcome
ChecksReport(manifest, r) ==
  IF r.findings = <<>>
  THEN [outcome |-> "OK", exit_code |-> 0, pack_id |-> <<manifest.pack_id>>,
        checks |-> r.checks, invalid |-> <<>>, refusal |-> <<>>]
  ELSE [outcome |-> "INVALID", exit_code |-> 1, pack_id |-> <<manifest.pack_id>>,
        checks |-> r.checks, invalid |-> r.findings, refusal |-> <<>>]

\* fs::read_to_string(pack_dir/manifest.json): <<text>>, <<>> on any error
ReadManifestText(t, pack_dir) ==
  LET c == ReadFile(t, pack_dir, <<"manifest.json">>)
  IN  IF c # <<>> /\ IsUtf8(c[1]) THEN c ELSE <<>>

\* verify without the look at the version field
execute_verify_any_version(t, pack_dir, asc) ==
  LET text == ReadManifestText(t, pack_dir)
  IN  IF text = <<>> THEN RefusalReport("E_BAD_PACK")
      ELSE IF ~ManifestParses(text[1]) THEN RefusalReport("E_BAD_PACK")
      ELSE LET parsed == ParseManifest(text[1])
           IN  ChecksReport(parsed, run_checks(parsed, t, pack_dir, asc))

execute_verify(t, pack_dir, asc) ==
  LET text == ReadManifestText(t, pack_dir)
  IN  IF text = <<>> THEN RefusalReport("E_BAD_PACK")
      ELSE IF ~ManifestParses(text[1]) THEN RefusalReport("E_BAD_PACK")
      ELSE IF ParseManifest(text[1]).version # Lit("pack.v0") THEN RefusalReport("E_BAD_PACK")
      ELSE LET parsed == ParseManifest(text[1])
           IN  ChecksReport(parsed, run_checks(parsed, t, pack_dir, asc))

\* ------------------------------------------------------------------ diff
DiffEntry(kind, path, a_hash, b_hash) ==
  [kind |-> kind, path |-> path, a_hash |-> a_hash, b_hash |-> b_hash]

\* members.iter().map(|m| (m.path, m)).collect::<BTreeMap>(): one entry a
\* path, a later member replacing an earlier one of the same path
MemberMap(members) ==
  [p \in {members[i].path : i \in DOMAIN members} |->
     members[CHOOSE i \in DOMAIN members :
               /\ members[i].path = p
               /\ \A j \in DOMAIN members : members[j].path = p => j <= i]]

RECURSIVE SortPaths(_)
\* the keys of a BTreeMap<&str, _> as it is iterated: ascending byte order
SortPaths(S) ==
  IF S = {} THEN <<>>
  ELSE LET m == CHOOSE x \in S : \A y \in S : x = y \/ StrLess(x, y)
       IN  <<m>> \o SortPaths(S \ {m})

\* DiffReport::has_changes
has_changes(d) == d.added # <<>> \/ d.removed # <<>> \/ d.changed # <<>>

\* a comparison that looks at the paths and never at the hashes
compare_manifests_paths_only(a, b) ==
  LET a_members == MemberMap(a.members)
      b_members == MemberMap(b.members)
      a_keys == SortPaths(DOMAIN a_members)
      b_keys == SortPaths(DOMAIN b_members)
      gone == SelectSeq(a_keys, LAMBDA p : p \notin DOMAIN b_members)
      kept == SelectSeq(a_keys, LAMBDA p : p \in DOMAIN b_members)
      new == SelectSeq(b_keys, LAMBDA p : p \notin DOMAIN a_members)
      added == [i \in 1..Len(new) |->
                  DiffEntry("added", new[i], <<>>, <<b_members[new[i]].bytes_hash>>)]
      removed == [i \in 1..Len(gone) |->
                    DiffEntry("removed", gone[i], <<a_members[gone[i]].bytes_hash>>, <<>>)]
  IN  [version |-> "pack.diff.v0",
       outcome |-> IF added = <<>> /\ removed = <<>> THEN "NO_CHANGES" ELSE "CHANGES",
       a_pack_id |-> a.pack_id, b_pack_id |-> b.pack_id,
       added |-> added, removed |-> removed, changed |-> <<>>, unchanged |-> Len(kept)]

\* a comparison that has no second loop: B is only looked up, never walked
compare_manifests_from_a(a, b) ==
  LET a_members == MemberMap(a.members)
      b_members == MemberMap(b.members)
      a_keys == SortPaths(DOMAIN a_members)
      gone == SelectSeq(a_keys, LAMBDA p : p \notin DOMAIN b_members)
      differ == SelectSeq(a_keys, LAMBDA p : /\ p \in DOMAIN b_members
                                            /\ a_members[p].bytes_hash # b_members[p].bytes_hash)
      same == SelectSeq(a_keys, LAMBDA p : /\ p \in DOMAIN b_members
                                          /\ a_members[p].bytes_hash = b_members[p].bytes_hash)
      removed == [i \in 1..Len(gone) |->
                    DiffEntry("removed", gone[i], <<a_members[gone[i]].bytes_hash>>, <<>>)]
      changed == [i \in 1..Len(differ) |->
                    DiffEntry("changed", differ[i], <<a_members[differ[i]].bytes_hash>>,
                              <<b_members[differ[i]].bytes_hash>>)]
  IN  [version |-> "pack.diff.v0",
       outcome |-> IF removed = <<>> /\ changed = <<>> THEN "NO_CHANGES" ELSE "CHANGES",
       a_pack_id |-> a.pack_id, b_pack_id |-> b.pack_id,
       added |-> <<>>, removed |-> removed, changed |-> changed, unchanged |-> Len(same)]

\* compare_manifests: the first loop walks A's map and fills removed and
\* changed and counts unchanged, the second walks B's map and fills added
compare_manifests(a, b) ==
  LET a_members == MemberMap(a.members)
      b_members == MemberMap(b.members)
      a_keys == SortPaths(DOMAIN a_members)
      b_keys == SortPaths(DOMAIN b_members)
      gone == SelectSeq(a_keys, LAMBDA p : p \notin DOMAIN b_members)
      differ == SelectSeq(a_keys, LAMBDA p : /\ p \in DOMAIN b_members
                                            /\ a_members[p].bytes_hash # b_members[p].bytes_hash)
      same == SelectSeq(a_keys, LAMBDA p : /\ p \in DOMAIN b_members
                                          /\ a_members[p].bytes_hash = b_members[p].bytes_hash)
      new == SelectSeq(b_keys, LAMBDA p : p \notin DOMAIN a_members)
      added == [i \in 1..Len(new) |->
                  DiffEntry("added", new[i], <<>>, <<b_members[new[i]].bytes_hash>>)]
      removed == [i \in 1..Len(gone) |->
                    DiffEntry("removed", gone[i], <<a_members[gone[i]].bytes_hash>>, <<>>)]
      changed == [i \in 1..Len(differ) |->
                    DiffEntry("changed", differ[i], <<a_members[differ[i]].bytes_hash>>,
                              <<b_members[differ[i]].bytes_hash>>)]
  IN  [version |-> "pack.diff.v0",
       outcome |-> IF added = <<>> /\ removed = <<>> /\ changed = <<>>
                   THEN "NO_CHANGES" ELSE "CHANGES",
       a_pack_id |-> a.pack_id, b_pack_id |-> b.pack_id,
       added |-> added, removed |-> removed, changed |-> changed, unchanged |-> Len(same)]

\* DiffReport::to_json: every field; to_human: the outcome from has_changes,
\* the pack ids, the paths of the three lists and the unchanged count
DiffJson(d) == [format |-> "json", doc |-> d]
DiffHuman(d) ==
  [format |-> "human",
   doc |-> [outcome |-> IF has_changes(d) THEN "CHANGES" ELSE "NO_CHANGES",
            a_pack_id |-> d.a_pack_id, b_pack_id |-> d.b_pack_id,
            added |-> [i \in 1..Len(d.added) |-> d.added[i].path],
            removed |-> [i \in 1..Len(d.removed) |-> d.removed[i].path],
            changed |-> [i \in 1..Len(d.changed) |-> d.changed[i].path],
            unchanged |-> d.unchanged]]

\* VerifyReport::to_json / to_human of a refusal
RefusalOutput(r, json_output) ==
  IF json_output THEN [format |-> "json", doc |-> r]
  ELSE [format |-> "human", doc |-> [outcome |-> r.outcome, refusal |-> r.refusal]]

\* read_manifest: the manifest of the pack directory, or the refusal report
read_manifest(t, pack_dir) ==
  LET text == ReadManifestText(t, pack_dir)
  IN  IF text = <<>> THEN [ok |-> FALSE, report |-> RefusalReport("E_BAD_PACK")]
      ELSE IF ~ManifestParses(text[1])
      THEN [ok |-> FALSE, report |-> RefusalReport("E_BAD_PACK")]
      ELSE IF ParseManifest(text[1]).version # Lit("pack.v0")
      THEN [ok |-> FALSE, report |-> RefusalReport("E_BAD_PACK")]
      ELSE [ok |-> TRUE, manifest |-> ParseManifest(text[1])]

\* a diff that calls two packs different as soon as their pack_id differ
execute_diff_by_pack_id(t, a_dir, b_dir, json_output) ==
  LET a == read_manifest(t, a_dir)
      b == read_manifest(t, b_dir)
  IN  IF ~a.ok THEN [output |-> RefusalOutput(a.report, json_output), exit_code |-> 2]
      ELSE IF ~b.ok THEN [output |-> RefusalOutput(b.report, json_output), exit_code |-> 2]
      ELSE LET diff == compare_manifests(a.manifest, b.manifest)
           IN  [output |-> IF json_output THEN DiffJson(diff) ELSE DiffHuman(diff),
                exit_code |-> IF a.manifest.pack_id # b.manifest.pack_id THEN 1 ELSE 0]

\* execute_diff: (output, exit_code)
execute_diff(t, a_dir, b_dir, json_output) ==
  LET a == read_manifest(t, a_dir)
      b == read_manifest(t, b_dir)
  IN  IF ~a.ok THEN [output |-> RefusalOutput(a.report, json_output), exit_code |-> 2]
      ELSE IF ~b.ok THEN [output |-> RefusalOutput(b.report, json_output), exit_code |-> 2]
      ELSE LET diff == compare_manifests(a.manifest, b.manifest)
           IN  [output |-> IF json_output THEN DiffJson(diff) ELSE DiffHuman(diff),
                exit_code |-> IF has_changes(diff) THEN 1 ELSE 0]

\* --------------------------------------------------------------- witness
\* WitnessRecord::new; the timestamp is left out
WitnessRecord(command, outcome, pack_id) ==
  [version |-> "witness.v0", tool |-> "pack", command |-> command, outcome |-> outcome,
   pack_id |-> pack_id]

\* a ledger opened without append: the record replaces what was there
append_witness_truncating(lines, record, io_ok) ==
  IF io_ok THEN [ok |-> TRUE, lines |-> <<record>>]
  ELSE [ok |-> FALSE, lines |-> lines]

\* append_witness: Ok with one more line in the ledger, or Err with the
\* ledger as it was when create_dir_all, open or writeln fails
append_witness(lines, record, io_ok) ==
  IF io_ok THEN [ok |-> TRUE, lines |-> Append(lines, record)]
  ELSE [ok |-> FALSE, lines |-> lines]

WITNESS_WARNING == "witness append warning"

\* a process end that refuses when the record could not be appended
finish_process_strict(command, outcome, pack_id, exit_code, output, lines, no_witness, io_ok) ==
  LET r == IF no_witness THEN [ok |-> TRUE, lines |-> lines]
           ELSE append_witness(lines, WitnessRecord(command, outcome, pack_id), io_ok)
  IN  [ended |-> TRUE, command |-> command,
       append |-> IF no_witness THEN "skipped" ELSE IF r.ok THEN "ok" ELSE "failed",
       exit_code |-> IF r.ok THEN exit_code ELSE 2,
       stdout |-> IF r.ok THEN output ELSE RefusalReport("E_IO"),
       stderr |-> <<>>,
       lines |-> r.lines]

\* The end of a seal or verify process: the domain output is printed, the
\* record is appended unless --no-witness was given, a failed append is a
\* warning line on stderr, and the process exits with the domain exit code.
finish_process(command, outcome, pack_id, exit_code, output, lines, no_witness, io_ok) ==
  LET r == IF no_witness THEN [ok |-> TRUE, lines |-> lines]
           ELSE append_witness(lines, WitnessRecord(command, outcome, pack_id), io_ok)
  IN  [ended |-> TRUE, command |-> command,
       append |-> IF no_witness THEN "skipped" ELSE IF r.ok THEN "ok" ELSE "failed",
       exit_code |-> exit_code,
       stdout |-> output,
       stderr |-> IF r.ok THEN <<>> ELSE <<WITNESS_WARNING>>,
       lines |-> r.lines]

\* ------------------------------------------------------------------ seal
\* the staging directory tempfile::tempdir() makes, and the --output directory
StagingDir == <<"tmp", "stg">>
FinalDir   == <<"out", "p">>

CREATED      == Lit("2026-01-15T00:00:00Z")
TOOL_VERSION == Lit("0.1.0")
Notes        == {<<>>, <<Lit("q4")>>}

CopiedMember(member_path, bytes_hash) == [member_path |-> member_path, bytes_hash |-> bytes_hash]

\* a copy that hashes the bytes read and writes none of them
copy_and_hash_file_empty(t, bytes, dest) ==
  [ok |-> ~IsDir(t, dest), tree |-> Put(t, dest, FileNode(Raw(0))),
   bytes_hash |-> Sha256String(bytes)]

\* copy_and_hash_file: File::create fails on a directory; the bytes read
\* from the source are hashed and written to dest
copy_and_hash_file(t, bytes, dest) ==
  [ok |-> ~IsDir(t, dest), tree |-> Put(t, dest, FileNode(bytes)),
   bytes_hash |-> Sha256String(bytes)]

\* the loop's turn without the failure of create_dir_all
CopyOneOverFile(t, sources, candidate, staging_dir) ==
  LET dest == staging_dir \o candidate.member_path
  IN  copy_and_hash_file(CreateDirAll(t, Parent(dest)), sources[candidate.source].data, dest)

\* one turn of the loop of copy_and_hash: parents first, then the copy
CopyOne(t, sources, candidate, staging_dir) ==
  LET dest == staging_dir \o candidate.member_path
  IN  IF ~CanCreateDirAll(t, Parent(dest))
      THEN [ok |-> FALSE, tree |-> t, bytes_hash |-> EmptyString]
      ELSE copy_and_hash_file(CreateDirAll(t, Parent(dest)), sources[candidate.source].data, dest)

\* the member descriptors finalize_manifest builds from the staged bytes
StagedMembers(t, copied, staging_dir) ==
  [i \in 1..Len(copied) |->
     LET content == ReadFile(t, staging_dir, copied[i].member_path)[1]
         detected == detect_member_type(content, copied[i].member_path)
     IN  Member(copied[i].member_path, copied[i].bytes_hash, detected.member_type,
                detected.artifact_version)]

\* finalize_manifest: the finalized manifest and the tree with manifest.json
\* written; fs::write fails when manifest.json is a directory
finalize_manifest(t, copied, staging_dir, created, note) ==
  LET manifest == ManifestFinalize(
                    ManifestNew(created, note, TOOL_VERSION, StagedMembers(t, copied, staging_dir)))
      manifest_path == staging_dir \o <<"manifest.json">>
  IN  [ok |-> ~IsDir(t, manifest_path), manifest |-> manifest,
       tree |-> Put(t, manifest_path, FileNode(to_canonical_bytes(manifest)))]

NoManifest == ManifestNew(EmptyString, <<>>, EmptyString, <<>>)
NoResult   == [status |-> "NONE", refusal |-> Refusal("", NoDetail)]

VARIABLES
  src,         \* the tree holding the input artifacts
  fs,          \* the tree seal writes to: staging and output directories
  fs0,         \* fs as it was before seal ran
  inputs,      \* seal's artifact arguments
  note,        \* seal's --note
  sealPc,      \* where execute_seal is
  candidates,  \* collect_artifacts' result
  copied,      \* copy_and_hash's results so far
  manifest,    \* the finalized manifest
  cpStack,     \* copy_dir_recursive's call stack
  result,      \* what execute_seal returned
  report,      \* what execute_verify returned for the pack as it is now
  tampers,     \* modifications made to the pack directory since seal
  packs,       \* the tree holding the two pack directories given to diff
  diffAB,      \* what execute_diff returned for (A, B)
  diffBA,      \* what execute_diff returned for (B, A)
  ledger,      \* the lines of the witness ledger
  exits,       \* how the seal and the verify process ended
  artifact,    \* the bytes and the member path given to the classifier
  detected,    \* what the classifier returned for them
  ledgerFile,  \* the witness ledger as the pieces written to it, in file order
  writers      \* where each process appending to the ledger is

diffVars == <<packs, diffAB, diffBA>>
witnessVars == <<ledger, exits>>
classVars == <<artifact, detected>>
appendVars == <<ledgerFile, writers>>

vars == <<src, fs, fs0, inputs, note, sealPc, candidates, copied, manifest, cpStack,
          result, report, tampers, packs, diffAB, diffBA, ledger, exits,
          artifact, detected, ledgerFile, writers>>

\* nothing diffed, no process ended
NoDiff == [output |-> [format |-> "none"], exit_code |-> 0]
NoExit == [ended |-> FALSE]
NoExits == [seal |-> NoExit, verify |-> NoExit]
NoPacks == (<<>> :> DirNode)
NoArtifact == [content |-> Raw(0), path |-> <<>>]
NoWriters == <<>>

\* The writable tree before seal: no output directory, an empty one, or one
\* holding a file.
BaseTree == (<<>> :> DirNode) @@ (<<"tmp">> :> DirNode)
InitialTrees ==
  { BaseTree,
    BaseTree @@ (<<"out">> :> DirNode) @@ (FinalDir :> DirNode),
    BaseTree @@ (<<"out">> :> DirNode) @@ (FinalDir :> DirNode)
             @@ (FinalDir \o <<"old">> :> FileNode(Raw(1))) }

InitWith(contents, lists, notes, trees) ==
  /\ src \in {SourceTree(c) : c \in contents}
  /\ fs \in trees
  /\ fs0 = fs
  /\ inputs \in lists
  /\ note \in notes
  /\ sealPc = "collect"
  /\ candidates = <<>>
  /\ copied = <<>>
  /\ manifest = NoManifest
  /\ cpStack = <<>>
  /\ result = NoResult
  /\ report = NoReport
  /\ tampers = 0
  /\ packs = NoPacks
  /\ diffAB = NoDiff
  /\ diffBA = NoDiff
  /\ ledger = <<>>
  /\ exits = NoExits
  /\ artifact = NoArtifact
  /\ detected = <<>>
  /\ ledgerFile = <<>>
  /\ writers = NoWriters

Init == InitWith(Contents, InputLists, Notes, InitialTrees)

\* execute_seal returns Err: the TempDir, if made, is dropped and removed
Refuse(t, refusal) ==
  /\ sealPc' = "refused"
  /\ result' = [status |-> "REFUSAL", refusal |-> refusal]
  /\ fs' = RemoveTree(t, StagingDir)

\* step 1
SealCollect ==
  /\ sealPc = "collect"
  /\ LET r == collect_artifacts(src, inputs)
     IN  IF r.ok
         THEN /\ candidates' = r.cands
              /\ sealPc' = "collision"
              /\ UNCHANGED <<fs, result>>
         ELSE /\ Refuse(fs, Refusal(r.code, NoDetail))
              /\ UNCHANGED candidates
  /\ UNCHANGED <<diffVars, witnessVars, classVars, appendVars>>
  /\ UNCHANGED <<src, fs0, inputs, note, copied, manifest, cpStack, report, tampers>>

\* step 2
SealCollision ==
  /\ sealPc = "collision"
  /\ LET r == check_collisions(candidates)
     IN  IF r.ok
         THEN sealPc' = "stage" /\ UNCHANGED <<fs, result>>
         ELSE Refuse(fs, r.refusal)
  /\ UNCHANGED <<diffVars, witnessVars, classVars, appendVars>>
  /\ UNCHANGED <<src, fs0, inputs, note, candidates, copied, manifest, cpStack, report, tampers>>

\* step 3: tempfile::tempdir()
SealStage ==
  /\ sealPc = "stage"
  /\ \E io_ok \in BOOLEAN :
       IF io_ok
       THEN /\ fs' = CreateDirAll(fs, StagingDir)
            /\ sealPc' = "copy"
            /\ UNCHANGED result
       ELSE Refuse(fs, Refusal("E_IO", NoDetail))
  /\ UNCHANGED <<diffVars, witnessVars, classVars, appendVars>>
  /\ UNCHANGED <<src, fs0, inputs, note, candidates, copied, manifest, cpStack, report, tampers>>

\* step 4, one candidate at a time
SealCopy ==
  /\ sealPc = "copy"
  /\ Len(copied) < Len(candidates)
  /\ \E io_ok \in BOOLEAN :
       LET cand == candidates[Len(copied) + 1]
           r == CopyOne(fs, src, cand, StagingDir)
       IN  IF io_ok /\ r.ok
           THEN /\ fs' = r.tree
                /\ copied' = Append(copied, CopiedMember(cand.member_path, r.bytes_hash))
                /\ UNCHANGED <<sealPc, result>>
           ELSE /\ Refuse(r.tree, Refusal("E_IO", NoDetail))
                /\ UNCHANGED copied
  /\ UNCHANGED <<diffVars, witnessVars, classVars, appendVars>>
  /\ UNCHANGED <<src, fs0, inputs, note, candidates, manifest, cpStack, report, tampers>>

\* step 5
SealFinalize ==
  /\ sealPc = "copy"
  /\ Len(copied) = Len(candidates)
  /\ \E io_ok \in BOOLEAN :
       LET r == finalize_manifest(fs, copied, StagingDir, CREATED, note)
       IN  IF io_ok /\ r.ok
           THEN /\ fs' = r.tree
                /\ manifest' = r.manifest
                /\ sealPc' = "promote"
                /\ UNCHANGED result
           ELSE /\ Refuse(fs, Refusal("E_IO", NoDetail))
                /\ UNCHANGED manifest
  /\ UNCHANGED <<diffVars, witnessVars, classVars, appendVars>>
  /\ UNCHANGED <<src, fs0, inputs, note, candidates, copied, cpStack, report, tampers>>

\* a target the occupied test lets through whatever it holds
TargetNeverOccupied(t, final_dir) == FALSE

\* final_dir.exists() and not is_empty, is_empty false when read_dir fails
TargetOccupied(t, final_dir) ==
  Exists(t, final_dir) /\ ~(IsDir(t, final_dir) /\ ReadDir(t, final_dir) = {})

\* step 6 up to fs::rename
SealPromote ==
  /\ sealPc = "promote"
  /\ \E io_ok \in BOOLEAN, rename_ok \in BOOLEAN :
       IF TargetOccupied(fs, FinalDir)
       THEN Refuse(fs, Refusal("E_IO", NoDetail)) /\ UNCHANGED cpStack
       ELSE IF ~Exists(fs, Parent(FinalDir)) /\ ~(io_ok /\ CanCreateDirAll(fs, Parent(FinalDir)))
       THEN Refuse(fs, Refusal("E_IO", NoDetail)) /\ UNCHANGED cpStack
       ELSE
         LET t == CreateDirAll(fs, Parent(FinalDir))
         IN  IF rename_ok
             THEN /\ fs' = RenameTree(t, StagingDir, FinalDir)
                  /\ sealPc' = "done"
                  /\ result' = [status |-> "PACK_CREATED", refusal |-> Refusal("", NoDetail)]
                  /\ UNCHANGED cpStack
             ELSE /\ fs' = t
                  /\ sealPc' = "fallback"
                  /\ cpStack' = <<[dir |-> <<>>, entered |-> FALSE, todo |-> {}]>>
                  /\ UNCHANGED result
  /\ UNCHANGED <<diffVars, witnessVars, classVars, appendVars>>
  /\ UNCHANGED <<src, fs0, inputs, note, candidates, copied, manifest, report, tampers>>

\* copy_dir_recursive(staging, final_dir), one file system call at a time.
\* The top frame is the directory being copied; read_dir's order is the
\* file system's.
SealFallback ==
  /\ sealPc = "fallback"
  /\ LET f == cpStack[Len(cpStack)]
         below == SubSeq(cpStack, 1, Len(cpStack) - 1)
     IN  \E io_ok \in BOOLEAN :
          IF ~f.entered
          THEN \* fs::create_dir_all(dst), fs::read_dir(src)
               IF io_ok /\ CanCreateDirAll(fs, FinalDir \o f.dir)
               THEN /\ fs' = CreateDirAll(fs, FinalDir \o f.dir)
                    /\ cpStack' = below \o <<[f EXCEPT !.entered = TRUE,
                                                       !.todo = ReadDir(fs, StagingDir \o f.dir)]>>
                    /\ UNCHANGED <<sealPc, result>>
               ELSE Refuse(fs, Refusal("E_IO", NoDetail)) /\ UNCHANGED cpStack
          ELSE IF f.todo = {}
          THEN \* this directory is copied; at the top: staging_dir.keep(), Ok
               /\ io_ok
               /\ cpStack' = below
               /\ IF below = <<>>
                  THEN /\ sealPc' = "done"
                       /\ result' = [status |-> "PACK_CREATED", refusal |-> Refusal("", NoDetail)]
                  ELSE UNCHANGED <<sealPc, result>>
               /\ UNCHANGED fs
          ELSE \E name \in f.todo :
                 LET rest == [f EXCEPT !.todo = f.todo \ {name}]
                     from == StagingDir \o f.dir \o <<name>>
                     to == FinalDir \o f.dir \o <<name>>
                 IN  IF IsDir(fs, from)
                     THEN /\ io_ok
                          /\ cpStack' = below \o <<rest, [dir |-> f.dir \o <<name>>,
                                                         entered |-> FALSE, todo |-> {}]>>
                          /\ UNCHANGED <<fs, sealPc, result>>
                     ELSE \* fs::copy
                          IF io_ok /\ ~IsDir(fs, to)
                          THEN /\ fs' = Put(fs, to, FileNode(fs[from].data))
                               /\ cpStack' = below \o <<rest>>
                               /\ UNCHANGED <<sealPc, result>>
                          ELSE Refuse(fs, Refusal("E_IO", NoDetail)) /\ UNCHANGED cpStack
  /\ UNCHANGED <<diffVars, witnessVars, classVars, appendVars>>
  /\ UNCHANGED <<src, fs0, inputs, note, candidates, copied, manifest, report, tampers>>

SealDone == sealPc \in {"done", "refused"}

\* a verify that deletes the files it finds to be no declared member
VerifyCleaning ==
  /\ SealDone
  /\ \E asc \in BOOLEAN :
       /\ report' = execute_verify(fs, FinalDir, asc)
       /\ fs' = [q \in {r \in DOMAIN fs :
                          ~\E k \in 1..Len(report'.invalid) :
                             /\ report'.invalid[k].code = "EXTRA_MEMBER"
                             /\ r = FinalDir \o report'.invalid[k].path[1]} |-> fs[q]]
  /\ UNCHANGED <<diffVars, witnessVars, classVars, appendVars>>
  /\ UNCHANGED <<src, fs0, inputs, note, sealPc, candidates, copied, manifest, cpStack,
                 result, tampers>>

\* pack verify <FinalDir>
Verify ==
  /\ SealDone
  /\ \E asc \in BOOLEAN : report' = execute_verify(fs, FinalDir, asc)
  /\ UNCHANGED <<diffVars, witnessVars, classVars, appendVars>>
  /\ UNCHANGED <<src, fs, fs0, inputs, note, sealPc, candidates, copied, manifest, cpStack,
                 result, tampers>>

Next ==
  \/ SealCollect
  \/ SealCollision
  \/ SealStage
  \/ SealCopy
  \/ SealFinalize
  \/ SealPromote
  \/ SealFallback
  \/ Verify

Spec == Init /\ [][Next]_vars

\* ------------------------------------------- changes to a pack after seal
\* What somebody with write access does to the pack directory between seal
\* and verify.  Paths are relative to the pack directory.
TamperPaths ==
  { <<"a">>, <<"x">>, <<"d", "f">>, <<"d", "x">>, <<"d", "sub", "x">>, <<"n", "x">> }
TamperContents == {Raw(1), Raw(2)}

\* manifest.json rewritten with one field changed, pack_id left alone
FieldEdits(m) ==
  { [m EXCEPT !.note = <<Lit("edited")>>],
    [m EXCEPT !.created = Lit("2027-01-01T00:00:00Z")],
    [m EXCEPT !.tool_version = Lit("9.9.9")],
    [m EXCEPT !.member_count = m.member_count + 1],
    [m EXCEPT !.pack_id = Lit("sha256:0")],
    [m EXCEPT !.version = Lit("pack.v99")] }
  \cup (IF m.members = <<>> THEN {}
        ELSE { [m EXCEPT !.members[1].bytes_hash = Sha256String(Raw(2))],
               [m EXCEPT !.members[1].path = <<"..", "a">>],
               [m EXCEPT !.members[1].path = <<".", "a">>],
               [m EXCEPT !.members[1].path = <<"manifest.json">>],
               [m EXCEPT !.members = Append(m.members, m.members[1])],
               [m EXCEPT !.members = Tail(m.members)] })

\* the same, and the same with pack_id computed again for the edited manifest
ManifestEdits(m) == FieldEdits(m) \cup {ManifestFinalize(e) : e \in FieldEdits(m)}

\* manifest.json replaced by something that is no manifest: text, bytes that
\* are not UTF-8, a JSON object without "members"
BrokenManifests(c) ==
  { Raw(1), Raw(3) }
  \cup (IF c.kind = "json"
        THEN { Json(SelectSeq(c.obj, LAMBDA kv : kv[1] # "members")) }
        ELSE {})

Tampered(t) ==
  /\ sealPc = "done"
  /\ tampers < MaxTamper
  /\ tampers' = tampers + 1
  /\ fs' = t
  /\ report' = NoReport
  /\ UNCHANGED <<diffVars, witnessVars, classVars, appendVars>>
  /\ UNCHANGED <<src, fs0, inputs, note, sealPc, candidates, copied, manifest, cpStack, result>>

\* a file is written or overwritten in the pack directory
TamperWrite ==
  \E p \in TamperPaths, c \in TamperContents :
    LET to == FinalDir \o p
    IN  /\ IsDir(fs, FinalDir)
        /\ CanCreateDirAll(fs, Parent(to))
        /\ ~IsDir(fs, to)
        /\ Tampered(Put(CreateDirAll(fs, Parent(to)), to, FileNode(c)))

\* a file of the pack directory is deleted
TamperRemove ==
  \E q \in DOMAIN fs :
    /\ IsPrefix(FinalDir, q) /\ q # FinalDir
    /\ fs[q].kind = "file"
    /\ Tampered(RemoveTree(fs, q))

\* manifest.json is edited
TamperManifest ==
  LET at == FinalDir \o <<"manifest.json">>
  IN  /\ at \in DOMAIN fs
      /\ fs[at].kind = "file"
      /\ \/ /\ ManifestParses(fs[at].data)
            /\ \E e \in ManifestEdits(ParseManifest(fs[at].data)) :
                 Tampered(Put(fs, at, FileNode(to_canonical_bytes(e))))
         \/ \E c \in BrokenManifests(fs[at].data) : Tampered(Put(fs, at, FileNode(c)))
         \/ Tampered(Put(fs, at, DirNode))

\* a member file is replaced by a symbolic link: to a regular file holding
\* the member's bytes, to a directory, or to nothing
TamperSymlink ==
  \E q \in DOMAIN fs, l \in {"file", "dir", "dangling"} :
    /\ IsPrefix(FinalDir, q) /\ q # FinalDir /\ q # FinalDir \o <<"manifest.json">>
    /\ fs[q].kind = "file"
    /\ Tampered(Put(fs, q, SymlinkNode(l, fs[q].data)))

\* The packs verify is studied on: a directory with nested files and a
\* file of free content, or one file, sealed into a fresh output directory.
VerifyInputLists ==
  { << <<"s1", "a">>, <<"s1", "d">> >>, << <<"s1", "d.x">> >> }

InitVerify == InitWith({Raw(1), RulesNoList}, VerifyInputLists, {<<>>}, {BaseTree})

NextVerify ==
  \/ Next
  \/ TamperWrite
  \/ TamperRemove
  \/ TamperManifest
  \/ TamperSymlink

SpecVerify == InitVerify /\ [][NextVerify]_vars

\* ---------------------------------------------- pack diff on two packs
\* The member descriptors of the packs diff is studied on.
DiffMembers ==
  { Member(p, Sha256String(c), Lit("other"), <<>>) : p \in {<<"a">>, <<"b">>}, c \in {Raw(1), Raw(2)} }
  \cup { Member(<<"d", "f">>, Sha256String(Raw(1)), Lit("other"), <<>>) }

\* member lists in any order, a path possibly declared twice
MemberLists == UNION { [1..n -> DiffMembers] : n \in 0..MaxMembers }

\* What a pack directory given to diff holds: a manifest.json written from a
\* finalized manifest, one that is no JSON, one of another version; or the
\* directory is not there.
PackStates ==
  { <<Json(ManifestToValue(ManifestFinalize(ManifestNew(CREATED, <<>>, TOOL_VERSION, ms))))>> :
      ms \in MemberLists }
  \cup { <<Raw(1)>>,
         <<Json(ManifestToValue(ManifestFinalize(
              [ManifestNew(CREATED, <<>>, TOOL_VERSION, <<>>) EXCEPT !.version = Lit("pack.v99")])))>>,
         <<>> }

PackA == <<"A">>
PackB == <<"B">>

PackDir(dir, state) ==
  IF state = <<>> THEN <<>> :> DirNode
  ELSE (dir :> DirNode) @@ (dir \o <<"manifest.json">> :> FileNode(state[1]))

InitDiff ==
  /\ packs \in { NoPacks @@ PackDir(PackA, a) @@ PackDir(PackB, b) : a \in PackStates, b \in PackStates }
  /\ diffAB = NoDiff
  /\ diffBA = NoDiff
  /\ src = SourceTree(Raw(1))
  /\ fs = BaseTree
  /\ fs0 = fs
  /\ inputs = <<>>
  /\ note = <<>>
  /\ sealPc = "collect"
  /\ candidates = <<>>
  /\ copied = <<>>
  /\ manifest = NoManifest
  /\ cpStack = <<>>
  /\ result = NoResult
  /\ report = NoReport
  /\ tampers = 0
  /\ ledger = <<>>
  /\ exits = NoExits
  /\ artifact = NoArtifact
  /\ detected = <<>>
  /\ ledgerFile = <<>>
  /\ writers = NoWriters

\* pack diff A B [--json]
DiffAB ==
  /\ diffAB = NoDiff
  /\ \E json_output \in BOOLEAN : diffAB' = execute_diff(packs, PackA, PackB, json_output)
  /\ UNCHANGED <<src, fs, fs0, inputs, note, sealPc, candidates, copied, manifest, cpStack,
                 result, report, tampers, packs, diffBA, witnessVars, classVars, appendVars>>

\* pack diff B A [--json]
DiffBA ==
  /\ diffBA = NoDiff
  /\ \E json_output \in BOOLEAN : diffBA' = execute_diff(packs, PackB, PackA, json_output)
  /\ UNCHANGED <<src, fs, fs0, inputs, note, sealPc, candidates, copied, manifest, cpStack,
                 result, report, tampers, packs, diffAB, witnessVars, classVars, appendVars>>

NextDiff ==
  \/ DiffAB
  \/ DiffBA

SpecDiff == InitDiff /\ [][NextDiff]_vars


\* ================================================================ claims
PackManifestPath == FinalDir \o <<"manifest.json">>
\* the manifest verify reads, when there is one it accepts
OnDisk == ParseManifest(fs[PackManifestPath].data)
Accepted == report.outcome \in {"OK", "INVALID"}
BooleanChecks(c) ==
  /\ c.manifest_parse /\ c.member_count /\ c.member_paths
  /\ c.extra_members /\ c.member_hashes /\ c.pack_id
HasFinding(code, path) ==
  \E i \in 1..Len(report.invalid) : report.invalid[i].code = code /\ report.invalid[i].path = path
Verified == report # NoReport

\* C1: verify run on a pack right after a successful seal, nothing modified
\* in between, returns OK with exit code 0, no findings and every boolean
\* check true.
RoundTrip ==
  (sealPc = "done" /\ tampers = 0 /\ Verified) =>
    /\ report.outcome = "OK"
    /\ report.exit_code = 0
    /\ report.invalid = <<>>
    /\ BooleanChecks(report.checks)

\* the round trip for packs none of whose members fails the schema that its
\* detected artifact_version selects
RoundTripSchemaApart ==
  (sealPc = "done" /\ tampers = 0 /\ Verified
     /\ validate_schemas(manifest.members, fs, FinalDir).outcome # "fail") =>
    /\ report.outcome = "OK"
    /\ report.exit_code = 0
    /\ report.invalid = <<>>
    /\ BooleanChecks(report.checks)

\* C2: every manifest.json seal has written parses, and its declared pack_id
\* is "sha256:" + SHA-256 of the canonical encoding of that manifest with
\* pack_id set to the empty string.
SelfHash ==
  \A p \in {StagingDir \o <<"manifest.json">>, PackManifestPath} :
    (p \in DOMAIN fs /\ fs[p].kind = "file") =>
      /\ ManifestParses(fs[p].data)
      /\ LET m == ParseManifest(fs[p].data)
         IN  /\ m.pack_id = Sha256String(canonical_json([m EXCEPT !.pack_id = EmptyString]))
             /\ m.pack_id # EmptyString
             /\ m = manifest

SelfHashWitness ==
  /\ sealPc = "done"
  /\ PackManifestPath \in DOMAIN fs
  /\ Len(manifest.members) >= 2
  /\ note # <<>>

\* C3: when seal returns a refusal, the output directory does not exist (or
\* is what it was before seal ran): no partly written pack is left.
NoPartialPack ==
  sealPc = "refused" =>
    \/ FinalDir \notin DOMAIN fs
    \/ Subtree(fs, FinalDir) = Subtree(fs0, FinalDir)

\* the same for the refusals that come before the fallback copy starts
NoPartialPackBeforeFallback ==
  (sealPc = "refused" /\ cpStack = <<>>) =>
    \/ FinalDir \notin DOMAIN fs
    \/ Subtree(fs, FinalDir) = Subtree(fs0, FinalDir)

Colliding(cands) ==
  \/ \E i, j \in 1..Len(cands) : i # j /\ cands[i].member_path = cands[j].member_path
  \/ \E i \in 1..Len(cands) : cands[i].member_path = <<"manifest.json">>
SourcesAt(cands, path) ==
  LET same == SelectSeq(cands, LAMBDA c : c.member_path = path)
  IN  [k \in 1..Len(same) |-> same[k].source]
Collected == sealPc \notin {"collect", "collision"}

\* C4: seal refuses with E_DUPLICATE exactly when two candidates have the
\* same member path or one has the reserved path manifest.json; the detail
\* names such a path and lists the sources of all candidates that have it.
CollisionContract ==
  Collected =>
    /\ (result.refusal.code = "E_DUPLICATE") <=> Colliding(candidates)
    /\ result.refusal.code = "E_DUPLICATE" =>
         LET d == result.refusal.detail
         IN  /\ Len(d.path) = 1
             /\ \E i \in 1..Len(candidates) : candidates[i].member_path = d.path[1]
             /\ d.sources = SourcesAt(candidates, d.path[1])

\* the part of C4 on when seal refuses, and the detail's path
CollisionExactlyWhen ==
  Collected =>
    /\ (result.refusal.code = "E_DUPLICATE") <=> Colliding(candidates)
    /\ result.refusal.code = "E_DUPLICATE" =>
         LET d == result.refusal.detail
         IN  /\ Len(d.path) = 1
             /\ \E i \in 1..Len(candidates) : candidates[i].member_path = d.path[1]
             /\ d.path[1] # <<"manifest.json">> => d.sources = SourcesAt(candidates, d.path[1])

\* C5: when verify accepts the manifest, the outcome is INVALID with exit
\* code 1 if a finding exists, a boolean check is false or schema_validation
\* is "fail", and OK with exit code 0 otherwise.
OutcomeRule ==
  Accepted =>
    LET bad == \/ report.invalid # <<>>
               \/ ~BooleanChecks(report.checks)
               \/ report.checks.schema_validation = "fail"
        clean == /\ report.invalid = <<>>
                 /\ BooleanChecks(report.checks)
                 /\ report.checks.schema_validation # "fail"
    IN  /\ report.outcome = (IF bad THEN "INVALID" ELSE "OK")
        /\ report.exit_code = (IF bad THEN 1 ELSE 0)
        /\ (report.outcome = "OK") <=> clean

\* a pack with one check false and the others true, found INVALID
OutcomeRuleWitness ==
  /\ report.outcome = "INVALID"
  /\ report.exit_code = 1
  /\ ~report.checks.member_count
  /\ report.checks.member_paths /\ report.checks.member_hashes
  /\ report.checks.extra_members /\ report.checks.pack_id

ManifestAbsent == PackManifestPath \notin DOMAIN fs
ManifestUnreadable ==
  /\ PackManifestPath \in DOMAIN fs
  /\ fs[PackManifestPath].kind # "file" \/ ~IsUtf8(fs[PackManifestPath].data)
ManifestReadable ==
  /\ PackManifestPath \in DOMAIN fs
  /\ fs[PackManifestPath].kind = "file" /\ IsUtf8(fs[PackManifestPath].data)
ManifestMalformed == ManifestReadable /\ ~ManifestParses(fs[PackManifestPath].data)
ManifestWrongVersion ==
  /\ ManifestReadable /\ ManifestParses(fs[PackManifestPath].data)
  /\ Get(fs[PackManifestPath].data.obj, "version") # Lit("pack.v0")

\* C6: when manifest.json is absent, unreadable, not JSON of the manifest's
\* shape, or of a version other than "pack.v0", verify returns REFUSAL with
\* code E_BAD_PACK and exit code 2, no findings and no check marked true.
RefusalRule ==
  (Verified /\ (ManifestAbsent \/ ManifestUnreadable \/ ManifestMalformed \/ ManifestWrongVersion)) =>
    /\ report.outcome = "REFUSAL"
    /\ report.refusal = <<"E_BAD_PACK">>
    /\ report.exit_code = 2
    /\ report.invalid = <<>>
    /\ ~report.checks.manifest_parse /\ ~report.checks.member_count
    /\ ~report.checks.member_paths /\ ~report.checks.member_hashes
    /\ ~report.checks.extra_members /\ ~report.checks.pack_id

\* a sealed pack whose manifest was given another version, refused
RefusalRuleWitness ==
  /\ sealPc = "done" /\ tampers > 0
  /\ ManifestWrongVersion
  /\ report.outcome = "REFUSAL"

\* C7: in a pack seal has produced, every member's file holds the bytes of
\* its source file, and the member's bytes_hash, in memory and in
\* manifest.json, is "sha256:" + SHA-256 of those bytes.
ByteFidelity ==
  sealPc = "done" =>
    /\ Len(manifest.members) = Len(candidates)
    /\ ManifestParses(fs[PackManifestPath].data)
    /\ OnDisk.members = manifest.members
    /\ \A i \in 1..Len(candidates) :
         LET at == FinalDir \o manifest.members[i].path
             bytes == src[candidates[i].source].data
         IN  /\ manifest.members[i].path = candidates[i].member_path
             /\ at \in DOMAIN fs
             /\ fs[at].kind = "file"
             /\ fs[at].data = bytes
             /\ manifest.members[i].bytes_hash = Sha256String(bytes)

\* a pack holding an empty file from a directory and a file that is not empty
ByteFidelityWitness ==
  /\ sealPc = "done"
  /\ \E i, j \in 1..Len(manifest.members) :
       /\ manifest.members[i].bytes_hash = Sha256String(Raw(0))
       /\ Len(manifest.members[i].path) = 3
       /\ manifest.members[j].bytes_hash # Sha256String(Raw(0))
       /\ fs[FinalDir \o manifest.members[j].path].data # Raw(0)

\* declared member i of the accepted manifest is a regular file on disk
RegularOnDisk(i) ==
  /\ PathExists(fs, FinalDir, OnDisk.members[i].path)
  /\ Lstat(fs, FinalDir, OnDisk.members[i].path).kind = "file"
DiskHash(i) == Sha256String(Lstat(fs, FinalDir, OnDisk.members[i].path).data)
MismatchReported(i) ==
  \E k \in 1..Len(report.invalid) :
    /\ report.invalid[k].code = "HASH_MISMATCH"
    /\ report.invalid[k].path = <<OnDisk.members[i].path>>
    /\ report.invalid[k].expected = <<OnDisk.members[i].bytes_hash>>
    /\ report.invalid[k].actual = <<DiskHash(i)>>

\* C8: for every declared member that is a regular file on disk, verify
\* reports HASH_MISMATCH for its path, expected the declared bytes_hash and
\* actual the hash of the bytes on disk, exactly when the two differ; a
\* HASH_MISMATCH is reported only so, and with one the outcome is INVALID and
\* member_hashes is false.
HashMismatchRule ==
  Accepted =>
    /\ \A i \in 1..Len(OnDisk.members) :
         RegularOnDisk(i) =>
           /\ MismatchReported(i) <=> (DiskHash(i) # OnDisk.members[i].bytes_hash)
           /\ MismatchReported(i) => (report.outcome = "INVALID" /\ ~report.checks.member_hashes)
    /\ \A k \in 1..Len(report.invalid) :
         report.invalid[k].code = "HASH_MISMATCH" =>
           \E i \in 1..Len(OnDisk.members) :
             /\ RegularOnDisk(i)
             /\ report.invalid[k].path = <<OnDisk.members[i].path>>
             /\ report.invalid[k].expected = <<OnDisk.members[i].bytes_hash>>
             /\ report.invalid[k].actual = <<DiskHash(i)>>
             /\ DiskHash(i) # OnDisk.members[i].bytes_hash

\* a member of a sealed pack overwritten with other bytes, the manifest as
\* seal wrote it
HashMismatchWitness ==
  /\ sealPc = "done" /\ tampers > 0
  /\ Accepted
  /\ OnDisk = manifest
  /\ \E i \in 1..Len(OnDisk.members) : RegularOnDisk(i) /\ MismatchReported(i)
  /\ report.outcome = "INVALID"
  /\ ~report.checks.member_hashes

BlankHash(m) == Sha256String(canonical_json([m EXCEPT !.pack_id = EmptyString]))

\* C9: verify's pack_id check is true iff the declared pack_id is the hash
\* of the canonical encoding of the parsed manifest with pack_id ""; when
\* it is false the outcome is INVALID with a PACK_ID_MISMATCH finding,
\* expected the declared id and actual the recomputed one; and a sealed
\* manifest with a field changed and the pack_id kept makes it false.
PackIdRule ==
  Accepted =>
    /\ report.checks.pack_id <=> (OnDisk.pack_id = BlankHash(OnDisk))
    /\ ~report.checks.pack_id =>
         /\ report.outcome = "INVALID"
         /\ \E k \in 1..Len(report.invalid) :
              /\ report.invalid[k].code = "PACK_ID_MISMATCH"
              /\ report.invalid[k].expected = <<OnDisk.pack_id>>
              /\ report.invalid[k].actual = <<BlankHash(OnDisk)>>
    /\ report.checks.pack_id => ~HasFinding("PACK_ID_MISMATCH", <<>>)
    /\ (sealPc = "done" /\ OnDisk # manifest /\ OnDisk.pack_id = manifest.pack_id) =>
         ~report.checks.pack_id

\* a sealed manifest whose member_count alone was changed
PackIdWitness ==
  /\ sealPc = "done" /\ tampers > 0
  /\ Accepted
  /\ OnDisk.member_count # manifest.member_count
  /\ [OnDisk EXCEPT !.member_count = manifest.member_count] = manifest
  /\ ~report.checks.pack_id
  /\ HasFinding("PACK_ID_MISMATCH", <<>>)

\* the regular files below the pack root, by pack-relative path
PackFiles ==
  {SubSeq(q, Len(FinalDir) + 1, Len(q)) :
     q \in {r \in DOMAIN fs : IsPrefix(FinalDir, r) /\ r # FinalDir /\ fs[r].kind = "file"}}
\* the entries below the pack root that are no directories
PackEntries ==
  {SubSeq(q, Len(FinalDir) + 1, Len(q)) :
     q \in {r \in DOMAIN fs : IsPrefix(FinalDir, r) /\ r # FinalDir /\ fs[r].kind # "dir"}}
DeclaredPaths == {OnDisk.members[i].path : i \in 1..Len(OnDisk.members)}
ExtraFiles == PackFiles \ ({<<"manifest.json">>} \cup DeclaredPaths)
ExtraReports(path) ==
  {k \in 1..Len(report.invalid) :
     report.invalid[k].code = "EXTRA_MEMBER" /\ report.invalid[k].path = <<path>>}

\* C10: verify reports EXTRA_MEMBER once, with the pack-relative path, for
\* each regular file under the pack root at any depth that is neither the
\* root manifest.json nor at a declared member path, and for no file at a
\* declared path; extra_members is true iff no EXTRA_MEMBER is reported.
ClosureRule ==
  Accepted =>
    /\ \A path \in ExtraFiles : Cardinality(ExtraReports(path)) = 1
    /\ \A path \in PackFiles \ ExtraFiles : ExtraReports(path) = {}
    /\ \A k \in 1..Len(report.invalid) :
         report.invalid[k].code = "EXTRA_MEMBER" =>
           /\ Len(report.invalid[k].path) = 1
           /\ report.invalid[k].path[1] \in PackEntries \ ({<<"manifest.json">>} \cup DeclaredPaths)
    /\ report.checks.extra_members <=>
         ~\E k \in 1..Len(report.invalid) : report.invalid[k].code = "EXTRA_MEMBER"

\* a file added two directories down, beside a declared nested member that
\* is not reported
ClosureWitness ==
  /\ sealPc = "done" /\ tampers > 0
  /\ Accepted
  /\ <<"d", "sub", "x">> \in ExtraFiles
  /\ <<"d", "sub", "g">> \in DeclaredPaths \cap PackFiles
  /\ Cardinality(ExtraReports(<<"d", "sub", "x">>)) = 1
  /\ ExtraReports(<<"d", "sub", "g">>) = {}
  /\ ~report.checks.extra_members

\* what lies at declared member i's path, links not followed: <<node>> or <<>>
NodeAt(i) ==
  LET r == Resolve(fs, FinalDir, OnDisk.members[i].path)
  IN  IF r # <<>> /\ r[1] \in DOMAIN fs THEN <<fs[r[1]]>> ELSE <<>>

\* C11: for each declared member verify reports MISSING_MEMBER iff nothing
\* exists at its path and NON_REGULAR_MEMBER iff what exists there is not a
\* regular file; a symbolic link, whatever it points to, gives
\* NON_REGULAR_MEMBER and no other judgement of the member.
MemberFileRule ==
  Accepted =>
    \A i \in 1..Len(OnDisk.members) :
      LET path == <<OnDisk.members[i].path>>
      IN  /\ HasFinding("MISSING_MEMBER", path) <=> (NodeAt(i) = <<>>)
          /\ HasFinding("NON_REGULAR_MEMBER", path) <=>
               (NodeAt(i) # <<>> /\ NodeAt(i)[1].kind # "file")
          /\ (NodeAt(i) # <<>> /\ NodeAt(i)[1].kind = "symlink") =>
               (~HasFinding("HASH_MISMATCH", path) /\ ~report.checks.member_hashes)

\* the same with a link that points to nothing counted as nothing there
MemberFileRuleLinksFollowed ==
  Accepted =>
    \A i \in 1..Len(OnDisk.members) :
      LET path == <<OnDisk.members[i].path>>
          dangling == NodeAt(i) # <<>> /\ NodeAt(i)[1].kind = "symlink"
                        /\ NodeAt(i)[1].link = "dangling"
      IN  /\ HasFinding("MISSING_MEMBER", path) <=> (NodeAt(i) = <<>> \/ dangling)
          /\ HasFinding("NON_REGULAR_MEMBER", path) <=>
               (NodeAt(i) # <<>> /\ NodeAt(i)[1].kind # "file" /\ ~dangling)
          /\ (NodeAt(i) # <<>> /\ NodeAt(i)[1].kind = "symlink") =>
               (~HasFinding("HASH_MISMATCH", path) /\ ~report.checks.member_hashes)

\* a path with no empty segment (so not empty and not starting with "/") and
\* no "." or ".." segment
WellFormedPath(path) == \A k \in 1..Len(path) : path[k] \notin {"", ".", ".."}

\* C12: verify reports UNSAFE_MEMBER_PATH for exactly the declared members
\* whose path is empty, starts with "/", or has an empty, "." or ".."
\* segment, and member_paths is false when there is such a member.
SafePathRule ==
  Accepted =>
    \A i \in 1..Len(OnDisk.members) :
      /\ HasFinding("UNSAFE_MEMBER_PATH", <<OnDisk.members[i].path>>)
           <=> ~WellFormedPath(OnDisk.members[i].path)
      /\ ~WellFormedPath(OnDisk.members[i].path) => ~report.checks.member_paths

\* the same for the paths that are empty, start with "/" or have a ".."
\* segment
SafePathRuleParentOnly ==
  Accepted =>
    \A i \in 1..Len(OnDisk.members) :
      LET path == OnDisk.members[i].path
          escapes == \/ path = <<"">>
                     \/ Len(path) > 1 /\ path[1] = ""
                     \/ \E k \in 1..Len(path) : path[k] = ".."
      IN  /\ HasFinding("UNSAFE_MEMBER_PATH", <<path>>) <=> escapes
          /\ escapes => ~report.checks.member_paths

\* C13: in every manifest seal writes, members is strictly ascending by
\* path in byte order and member_count is the length of members, whatever
\* the order of the inputs.
ManifestOrdering ==
  sealPc \in {"promote", "fallback", "done"} =>
    /\ \A i \in 1..(Len(manifest.members) - 1) :
         BytesLess(StrBytes(manifest.members[i].path), StrBytes(manifest.members[i + 1].path))
    /\ manifest.member_count = Len(manifest.members)
    /\ sealPc = "done" => (ManifestParses(fs[PackManifestPath].data) /\ OnDisk = manifest)

\* a directory listed before a file whose name sorts before the directory's
\* entries: "d.x" < "d/f" < "d/sub/g"
ManifestOrderingWitness ==
  /\ sealPc = "done"
  /\ inputs = << <<"s1", "d">>, <<"s1", "d.x">> >>
  /\ Len(manifest.members) = 3
  /\ manifest.members[1].path = <<"d.x">>
  /\ manifest.members[2].path = <<"d", "f">>
  /\ OnDisk.member_count = 3

\* the output directory held at least one entry before seal ran
OccupiedBefore == FinalDir \in DOMAIN fs0 /\ ReadDir(fs0, FinalDir) # {}

Walked(p) == IF src[p].kind = "dir" THEN {q \in DOMAIN src : IsPrefix(p, q)} ELSE {p}
NonRegularSeen ==
  \E i \in 1..Len(inputs) :
    inputs[i] \in DOMAIN src /\ \E q \in Walked(inputs[i]) : src[q].kind \notin {"file", "dir"}

\* C15: when an input, or an entry below an input directory, is a symbolic
\* link or another non-regular file, seal refuses with E_IO, keeps no
\* candidate and leaves no staging or output directory; every candidate is a
\* regular file, links not followed.
NonRegularInputs ==
  sealPc # "collect" =>
    /\ NonRegularSeen =>
         /\ sealPc = "refused"
         /\ result.refusal.code = "E_IO"
         /\ candidates = <<>>
         /\ StagingDir \notin DOMAIN fs
         /\ fs = fs0
    /\ \A i \in 1..Len(candidates) : src[candidates[i].source].kind = "file"

\* a regular file and then a directory holding a regular file and a link
NonRegularInputsWitness ==
  /\ inputs = << <<"s1", "a">>, <<"s2", "e">> >>
  /\ sealPc = "refused"
  /\ result.refusal.code = "E_IO"
  /\ fs = fs0

\* C16: a run of verify, whatever its outcome, leaves the pack directory's
\* files and their bytes, manifest.json included, as they were.
VerifyReadOnly ==
  [][(SealDone /\ tampers' = tampers) => (fs' = fs /\ src' = src)]_vars

\* verify has found a modified pack INVALID for an added file
VerifyReadOnlyWitness ==
  /\ sealPc = "done" /\ tampers > 0
  /\ report.outcome = "INVALID"
  /\ HasFinding("EXTRA_MEMBER", << <<"x">> >>)
  /\ FinalDir \o <<"x">> \in DOMAIN fs

\* -------------------------------------- seal and verify as processes
\* The invocations the witness ledger is studied on: the packs of
\* VerifyInputLists, no input at all, and an input that does not exist.
WitnessInputLists == VerifyInputLists \cup { <<>>, << <<"s1", "nope">> >> }

InitWitness == InitWith({Raw(1), RulesNoList}, WitnessInputLists, {<<>>}, {BaseTree})

\* exit code of seal's outcome
SealExitCode(r) == IF r.status = "PACK_CREATED" THEN 0 ELSE 2

\* the seal process ends after execute_seal has returned
SealExit ==
  /\ SealDone
  /\ ~exits.seal.ended
  /\ \E no_witness \in BOOLEAN, io_ok \in BOOLEAN :
       LET pack_id == IF result.status = "PACK_CREATED" THEN <<manifest.pack_id>> ELSE <<>>
           e == finish_process("seal", result.status, pack_id, SealExitCode(result), result,
                               ledger, no_witness, io_ok)
       IN  /\ (no_witness \/ ~io_ok \/ Len(ledger) < MaxLedger)
           /\ exits' = [exits EXCEPT !.seal = e]
           /\ ledger' = e.lines
  /\ UNCHANGED <<src, fs, fs0, inputs, note, sealPc, candidates, copied, manifest, cpStack,
                 result, report, tampers, diffVars, classVars, appendVars>>

\* a whole verify process: execute_verify, then the end of the process
VerifyRun ==
  /\ exits.seal.ended
  /\ \E asc \in BOOLEAN : report' = execute_verify(fs, FinalDir, asc)
  /\ \E no_witness \in BOOLEAN, io_ok \in BOOLEAN :
       LET e == finish_process("verify", report'.outcome, report'.pack_id, report'.exit_code,
                               report', ledger, no_witness, io_ok)
       IN  /\ (no_witness \/ ~io_ok \/ Len(ledger) < MaxLedger)
           /\ exits' = [exits EXCEPT !.verify = e]
           /\ ledger' = e.lines
  /\ UNCHANGED <<src, fs, fs0, inputs, note, sealPc, candidates, copied, manifest, cpStack,
                 result, tampers, diffVars, classVars, appendVars>>

NextWitness ==
  \/ SealCollect
  \/ SealCollision
  \/ SealStage
  \/ SealCopy
  \/ SealFinalize
  \/ SealPromote
  \/ SealFallback
  \/ SealExit
  \/ VerifyRun

SpecWitness == InitWitness /\ [][NextWitness]_vars



\* -------------------------------------------- the classifier on its own
\* The documents given to the classifier: empty, text, bytes that are not
\* UTF-8, a YAML profile, a JSON object for every marker and for an unknown
\* one, with a number as version, and JSON profiles with and without version.
ProfileFields == << <<"schema_version", Num(1)>>, <<"profile_id", Lit("loan_tape_v2")>> >>
ProfileJson == Json(ProfileFields)
ClassContents ==
  {Raw(0), Raw(1), Raw(3), Raw(4)}
  \cup {Json(<< <<"version", Lit(v)>> >>) : v \in KnownMarkers \cup {"foo.v9"}}
  \cup {Json(<< <<"version", Num(1)>> >>),
        ProfileJson,
        Json(<< <<"version", Lit("lock.v0")>> >> \o ProfileFields),
        Json(<< <<"version", Lit("foo.v9")>> >> \o ProfileFields),
        Json(<< <<"schema_version", Num(1)>> >>)}
ClassPaths ==
  {<<"a">>, <<"registry.json">>, <<"registry", "a">>, <<"d", "x.registry.json">>}

\* no seal, verify, diff or witness append is running
Idle ==
  /\ src = SourceTree(Raw(1))
  /\ fs = BaseTree
  /\ fs0 = fs
  /\ inputs = <<>>
  /\ note = <<>>
  /\ sealPc = "collect"
  /\ candidates = <<>>
  /\ copied = <<>>
  /\ manifest = NoManifest
  /\ cpStack = <<>>
  /\ result = NoResult
  /\ report = NoReport
  /\ tampers = 0
  /\ packs = NoPacks
  /\ diffAB = NoDiff
  /\ diffBA = NoDiff
  /\ ledger = <<>>
  /\ exits = NoExits

InitClassify ==
  /\ Idle
  /\ artifact \in [content : ClassContents, path : ClassPaths]
  /\ detected = <<>>
  /\ ledgerFile = <<>>
  /\ writers = NoWriters

\* detect_member_type(content, path)
Classify ==
  /\ detected = <<>>
  /\ detected' = <<detect_member_type(artifact.content, artifact.path)>>
  /\ UNCHANGED <<src, fs, fs0, inputs, note, sealPc, candidates, copied, manifest, cpStack,
                 result, report, tampers, diffVars, witnessVars, artifact, appendVars>>

NextClassify == Classify

SpecClassify == InitClassify /\ [][NextClassify]_vars

\* ------------------------------------- verify on packs of known documents
\* The packs schema validation is studied on: the first source file is text,
\* a lock, rules with and without their list, a report, an artifact, a
\* manifest, or a document of an unknown marker; afterwards member files are written or removed and the
\* artifact_version a member declares is edited.
SchemaContents ==
  {Raw(1), LockDoc, RulesNoList, RulesDoc, UnknownDoc}
  \cup {Json(<< <<"version", Lit(v)>> >>) : v \in {"rvl.v0", "canon.v0", "pack.v0"}}

InitSchema == InitWith(SchemaContents, VerifyInputLists, {<<>>}, {BaseTree})

\* manifest.json rewritten with another artifact_version for one member
TamperVersion ==
  LET at == FinalDir \o <<"manifest.json">>
  IN  /\ at \in DOMAIN fs
      /\ fs[at].kind = "file"
      /\ ManifestParses(fs[at].data)
      /\ \E i \in DOMAIN ParseManifest(fs[at].data).members :
           \E v \in {<<>>, <<Lit("lock.v0")>>, <<Lit("foo.v9")>>} :
             LET m == ParseManifest(fs[at].data)
             IN  /\ m.members[i].artifact_version # v
                 /\ Tampered(Put(fs, at, FileNode(to_canonical_bytes(
                                   [m EXCEPT !.members[i].artifact_version = v]))))

NextSchema ==
  \/ Next
  \/ TamperWrite
  \/ TamperRemove
  \/ TamperVersion

SpecSchema == InitSchema /\ [][NextSchema]_vars
\* --------------------------------------------- verify and read_dir's order
\* manifest.json is rewritten to declare no member, pack_id computed again
\* or not: every member file of the pack is now a file nobody declared
TamperUndeclare ==
  LET at == FinalDir \o <<"manifest.json">>
  IN  /\ at \in DOMAIN fs
      /\ fs[at].kind = "file"
      /\ ManifestParses(fs[at].data)
      /\ LET m == ParseManifest(fs[at].data)
             e == [m EXCEPT !.members = <<>>, !.member_count = 0]
         IN  /\ m.members # <<>>
             /\ \E d \in {e, ManifestFinalize(e)} :
                  Tampered(Put(fs, at, FileNode(to_canonical_bytes(d))))

OrderInputLists == { << <<"s1", "a">>, <<"s1", "d">> >>, << <<"s1", "d">> >> }

InitOrder == InitWith({Raw(1)}, OrderInputLists, {<<>>}, {BaseTree})

NextOrder ==
  \/ Next
  \/ TamperWrite
  \/ TamperUndeclare

SpecOrder == InitOrder /\ [][NextOrder]_vars

\* ------------------------------------------------- the ledger as a file
\* What is in the ledger file, as the pieces write(2) put there: the JSON
\* text of a record, or a line feed.  "by" is the process that wrote the
\* piece, 0 for what was there before; no reader sees it.
JsonPiece(by, record) == [by |-> by, nl |-> FALSE, record |-> <<record>>]
NewlinePiece(by) == [by |-> by, nl |-> TRUE, record |-> <<>>]

RECURSIVE SplitLines(_, _)
\* content.as_bytes().lines(): the runs between line feeds, the last one
\* also when no line feed ends it
SplitLines(pieces, cur) ==
  IF pieces = <<>> THEN (IF cur = <<>> THEN <<>> ELSE <<cur>>)
  ELSE IF Head(pieces).nl THEN <<cur>> \o SplitLines(Tail(pieces), <<>>)
  ELSE SplitLines(Tail(pieces), Append(cur, Head(pieces)))

\* serde_json::from_str::<WitnessRecord>(line): Ok for the text of exactly
\* one record; an empty line and two objects one after the other are errors
ParsesAsRecord(line) == Len(line) = 1

\* read_ledger: the lines that parse as a record of tool "pack", in order
read_ledger(pieces) ==
  LET lines == SelectSeq(SplitLines(pieces, <<>>),
                         LAMBDA l : ParsesAsRecord(l) /\ l[1].record[1].tool = "pack")
  IN  [i \in 1..Len(lines) |-> lines[i][1].record[1]]

\* ------------------------------------------------- concurrent appends
\* Two processes run append_witness on the same ledger.  Each opens the
\* file with create and append and then runs writeln!(file, "{line}"):
\* File is not buffered, so write_fmt hands the record's text and the line
\* feed to write_all one after the other, and each is a write(2) of its own
\* that O_APPEND puts at the end of the file as it then is.
Procs == {1, 2}
ForeignRecord == [WitnessRecord("run", "OK", <<>>) EXCEPT !.tool = "shape"]
AppendRecords ==
  { WitnessRecord("seal", "PACK_CREATED", <<Lit("sha256:1")>>),
    WitnessRecord("verify", "OK", <<Lit("sha256:1")>>),
    WitnessRecord("verify", "REFUSAL", <<>>) }
InitialLedgers ==
  { <<>>,
    <<JsonPiece(0, WitnessRecord("seal", "PACK_CREATED", <<Lit("sha256:1")>>)), NewlinePiece(0)>>,
    <<JsonPiece(0, ForeignRecord), NewlinePiece(0),
      JsonPiece(0, WitnessRecord("verify", "INVALID", <<Lit("sha256:1")>>)), NewlinePiece(0)>> }

InitAppend ==
  /\ Idle
  /\ artifact = NoArtifact
  /\ detected = <<>>
  /\ ledgerFile \in InitialLedgers
  /\ writers \in [Procs -> [pc : {"start"}, record : AppendRecords]]

WriterStep(p, pc) == writers' = [writers EXCEPT ![p].pc = pc]
AppendRest ==
  UNCHANGED <<src, fs, fs0, inputs, note, sealPc, candidates, copied, manifest, cpStack,
              result, report, tampers, diffVars, witnessVars, classVars>>

\* create_dir_all, serde_json::to_string, OpenOptions::open
AppendOpen ==
  \E p \in Procs, io_ok \in BOOLEAN :
    /\ writers[p].pc = "start"
    /\ WriterStep(p, IF io_ok THEN "opened" ELSE "err")
    /\ UNCHANGED ledgerFile
    /\ AppendRest

\* writeln!: write_all of the record's text
AppendWriteLine ==
  \E p \in Procs, io_ok \in BOOLEAN :
    /\ writers[p].pc = "opened"
    /\ IF io_ok
       THEN /\ ledgerFile' = Append(ledgerFile, JsonPiece(p, writers[p].record))
            /\ WriterStep(p, "line")
       ELSE /\ UNCHANGED ledgerFile
            /\ WriterStep(p, "err")
    /\ AppendRest

\* writeln!: write_all of the line feed, then Ok(())
AppendWriteNewline ==
  \E p \in Procs, io_ok \in BOOLEAN :
    /\ writers[p].pc = "line"
    /\ IF io_ok
       THEN /\ ledgerFile' = Append(ledgerFile, NewlinePiece(p))
            /\ WriterStep(p, "ok")
       ELSE /\ UNCHANGED ledgerFile
            /\ WriterStep(p, "err")
    /\ AppendRest

NextAppend ==
  \/ AppendOpen
  \/ AppendWriteLine
  \/ AppendWriteNewline

SpecAppend == InitAppend /\ [][NextAppend]_vars

\* ------------------------------------------------------------------ C17
\* the manifest.json of a pack directory given to diff can be loaded: it is
\* a readable file of UTF-8 text that parses as a manifest of version pack.v0
Loadable(dir) ==
  LET c == ReadFile(packs, dir, <<"manifest.json">>)
  IN  /\ c # <<>>
      /\ IsUtf8(c[1])
      /\ ManifestParses(c[1])
      /\ Get(c[1].obj, "version") = Lit("pack.v0")

Loaded(dir) == ParseManifest(ReadFile(packs, dir, <<"manifest.json">>)[1])
PathsOf(m) == {m.members[i].path : i \in DOMAIN m.members}
\* the hash a manifest declares for a path, its last declaration when the
\* path is declared more than once
HashOf(m, p) ==
  LET last == CHOOSE i \in DOMAIN m.members :
                /\ m.members[i].path = p
                /\ \A j \in DOMAIN m.members : m.members[j].path = p => j <= i
  IN  m.members[last].bytes_hash
EntryPaths(list) == {list[i].path : i \in DOMAIN list}
Ascending(list) ==
  \A i \in DOMAIN list, j \in DOMAIN list : i < j => StrLess(list[i].path, list[j].path)
\* both manifests were loaded and the report was printed as JSON
Compared(x) == x.output.format = "json" /\ x.exit_code # 2

\* what the claim says of the JSON report d of diff(a, b)
DiffResultOf(d, a, b) ==
  LET both == PathsOf(a) \cap PathsOf(b)
      same == {p \in both : HashOf(a, p) = HashOf(b, p)}
  IN  /\ EntryPaths(d.removed) = PathsOf(a) \ PathsOf(b)
      /\ \A i \in DOMAIN d.removed :
           d.removed[i] = DiffEntry("removed", d.removed[i].path,
                                    <<HashOf(a, d.removed[i].path)>>, <<>>)
      /\ EntryPaths(d.added) = PathsOf(b) \ PathsOf(a)
      /\ \A i \in DOMAIN d.added :
           d.added[i] = DiffEntry("added", d.added[i].path,
                                  <<>>, <<HashOf(b, d.added[i].path)>>)
      /\ EntryPaths(d.changed) = both \ same
      /\ \A i \in DOMAIN d.changed :
           d.changed[i] = DiffEntry("changed", d.changed[i].path,
                                    <<HashOf(a, d.changed[i].path)>>,
                                    <<HashOf(b, d.changed[i].path)>>)
      /\ d.unchanged = Cardinality(same)
      /\ EntryPaths(d.removed) \cap EntryPaths(d.added) = {}
      /\ EntryPaths(d.removed) \cap EntryPaths(d.changed) = {}
      /\ EntryPaths(d.added) \cap EntryPaths(d.changed) = {}
      /\ Ascending(d.removed) /\ Ascending(d.added) /\ Ascending(d.changed)
      /\ EntryPaths(d.removed) \cup EntryPaths(d.added) \cup EntryPaths(d.changed) \cup same
           = PathsOf(a) \cup PathsOf(b)

\* C17: Diff result.  Whenever diff has compared two manifests A and B, its
\* report lists as removed exactly the paths of A that B does not declare,
\* each with A's hash; as added exactly the paths of B that A does not
\* declare, each with B's hash; as changed exactly the paths both declare
\* with different bytes_hash, each with both hashes; unchanged is the number
\* of paths both declare with the same bytes_hash; the three lists have no
\* path in common, each is strictly ascending by the bytes of the path, and
\* with the unchanged paths they cover the paths of A and B and nothing else.
DiffResult ==
  /\ Compared(diffAB) => DiffResultOf(diffAB.output.doc, Loaded(PackA), Loaded(PackB))
  /\ Compared(diffBA) => DiffResultOf(diffBA.output.doc, Loaded(PackB), Loaded(PackA))

\* a report with a removed, an added and a changed path was produced
DiffResultWitness ==
  /\ Compared(diffAB)
  /\ diffAB.output.doc.removed # <<>>
  /\ diffAB.output.doc.added # <<>>
  /\ diffAB.output.doc.changed # <<>>

\* the same holds of manifests that list their members in descending order
\* or declare a path twice: a report with two removed paths from such an A
DiffResultUnsortedWitness ==
  /\ Compared(diffAB)
  /\ Len(diffAB.output.doc.removed) = 2
  /\ Len(Loaded(PackA).members) = 2
  /\ StrLess(Loaded(PackA).members[2].path, Loaded(PackA).members[1].path)

\* ------------------------------------------------------------------ C18
\* an entry as the diff in the other direction reports it
Mirror(e, kind) == DiffEntry(kind, e.path, e.b_hash, e.a_hash)
MirrorAll(list, kind) == [i \in 1..Len(list) |-> Mirror(list[i], kind)]

\* C18: Diff symmetry.  When diff has compared A with B and B with A, the
\* added list of either report is the removed list of the other with the
\* hash on the other side, the changed lists hold the same paths with the
\* two hashes swapped, the unchanged counts are equal, the outcomes are
\* equal and so are the exit codes.
DiffSymmetry ==
  (Compared(diffAB) /\ Compared(diffBA)) =>
    LET ab == diffAB.output.doc
        ba == diffBA.output.doc
    IN  /\ ba.added = MirrorAll(ab.removed, "added")
        /\ ba.removed = MirrorAll(ab.added, "removed")
        /\ {ba.changed[i] : i \in DOMAIN ba.changed}
             = {Mirror(ab.changed[i], "changed") : i \in DOMAIN ab.changed}
        /\ Len(ba.changed) = Len(ab.changed)
        /\ ba.unchanged = ab.unchanged
        /\ ba.outcome = ab.outcome
        /\ diffBA.exit_code = diffAB.exit_code

\* both directions were diffed on packs where A has a path B lacks, and a
\* path both declare has different hashes
DiffSymmetryWitness ==
  /\ Compared(diffAB) /\ Compared(diffBA)
  /\ diffAB.output.doc.removed # <<>>
  /\ diffAB.output.doc.added = <<>>
  /\ diffBA.output.doc.changed # <<>>

\* ------------------------------------------------------------------ C19
\* the three lists of a printed diff report: entries in JSON, paths in text
ListsEmpty(doc) == doc.added = <<>> /\ doc.removed = <<>> /\ doc.changed = <<>>
IsDiffReport(doc) == {"added", "removed", "changed", "unchanged"} \subseteq DOMAIN doc

\* what the claim says of one run x of diff
DiffOutcomeOf(x) ==
  IF Loadable(PackA) /\ Loadable(PackB)
  THEN /\ IsDiffReport(x.output.doc)
       /\ x.output.doc.outcome \in {"CHANGES", "NO_CHANGES"}
       /\ (x.output.doc.outcome = "CHANGES" <=> ~ListsEmpty(x.output.doc))
       /\ (x.output.doc.outcome = "CHANGES" <=> x.exit_code = 1)
       /\ (x.output.doc.outcome = "NO_CHANGES" <=> x.exit_code = 0)
  ELSE /\ x.output.doc.outcome = "REFUSAL"
       /\ x.exit_code = 2
       /\ ~IsDiffReport(x.output.doc)

\* C19: Diff outcome.  A diff of two packs whose manifest.json can both be
\* loaded ends with CHANGES and exit code 1 exactly when one of added,
\* removed, changed is not empty, and with NO_CHANGES and exit code 0
\* exactly when all three are empty; when the manifest.json of either pack
\* cannot be read, does not parse or is not of version pack.v0, it ends with
\* REFUSAL and exit code 2 and prints no comparison.
DiffOutcome ==
  /\ diffAB # NoDiff => DiffOutcomeOf(diffAB)
  /\ diffBA # NoDiff => DiffOutcomeOf(diffBA)

\* one direction printed as text ended with exit code 1, and the packs
\* differ only in a hash
DiffOutcomeWitness ==
  /\ diffAB.output.format = "human"
  /\ diffAB.exit_code = 1
  /\ diffAB.output.doc.added = <<>>
  /\ diffAB.output.doc.removed = <<>>

\* a diff was refused for a manifest.json of another version
DiffOutcomeRefusedWitness ==
  /\ diffAB # NoDiff
  /\ diffAB.exit_code = 2
  /\ Loadable(PackA)
  /\ ReadFile(packs, PackB, <<"manifest.json">>) # <<>>
  /\ ManifestParses(ReadFile(packs, PackB, <<"manifest.json">>)[1])

\* two packs with the same members in another order: NO_CHANGES, exit code 0
DiffOutcomeSameWitness ==
  /\ diffAB # NoDiff
  /\ diffAB.exit_code = 0
  /\ Loaded(PackA).pack_id # Loaded(PackB).pack_id

\* ------------------------------------------------------------------ C20
\* what the claim says of an ended process with domain exit code c and
\* domain output out
Isolated(e, c, out) ==
  /\ e.exit_code = c
  /\ e.stdout = out
  /\ e.stderr = IF e.append = "failed" THEN <<WITNESS_WARNING>> ELSE <<>>

\* C20: Witness failure isolation.  A seal or verify process exits with the
\* exit code of its outcome and prints the output of its outcome whether the
\* witness record was appended, could not be appended or was not asked for;
\* a failed append leaves one warning line on the diagnostic stream and
\* nothing else.
WitnessIsolation ==
  /\ exits.seal.ended => Isolated(exits.seal, SealExitCode(result), result)
  /\ exits.verify.ended => Isolated(exits.verify, report.exit_code, report)

\* a seal that created a pack and a verify that found it INVALID, neither of
\* which could append its record
WitnessIsolationWitness ==
  /\ exits.seal.ended /\ exits.seal.append = "failed" /\ exits.seal.exit_code = 0
  /\ exits.verify.ended /\ exits.verify.append = "failed" /\ exits.verify.exit_code = 1
  /\ ledger = <<>>

\* the same runs with both records appended
WitnessIsolationAppendedWitness ==
  /\ exits.seal.ended /\ exits.seal.append = "ok" /\ exits.seal.exit_code = 0
  /\ exits.verify.ended /\ exits.verify.append = "ok" /\ exits.verify.exit_code = 1
  /\ Len(ledger) = 2

\* ------------------------------------------------------------------ C21
\* the line an ended process leaves in the ledger
LineOf(e, outcome) == [command |-> e.command, outcome |-> outcome]
Recorded(line) == [command |-> line.command, outcome |-> line.outcome]
\* a process ended in this step
SealEnded == ~exits.seal.ended /\ exits'.seal.ended
VerifyEnded == exits'.verify.ended /\ report' # NoReport /\ <<exits, ledger, report>>' # <<exits, ledger, report>>

LedgerShape ==
  /\ \A i \in DOMAIN ledger :
       /\ ledger[i].version = "witness.v0" /\ ledger[i].tool = "pack"
       /\ ledger[i].command = (IF i = 1 /\ exits.seal.ended /\ exits.seal.append = "ok"
                               THEN "seal" ELSE "verify")
  /\ (exits.seal.ended /\ exits.seal.append = "ok") =>
       (ledger # <<>> /\ ledger[1].outcome = result.status)
  /\ ~exits.seal.ended => ledger = <<>>

MarkerOf(c) ==
  IF /\ c.kind = "json" /\ HasKey(c.obj, "version") /\ Get(c.obj, "version").t = "str"
     /\ Get(c.obj, "version").s \in {<<m>> : m \in KnownMarkers}
  THEN Get(c.obj, "version").s
  ELSE <<>>
TypeOfMarker(m) ==
  CASE m = "lock.v0" -> "lockfile"
    [] m \in {"rvl.v0", "shape.v0", "verify.v0", "compare.v0"} -> "report"
    [] m \in {"canon.v0", "assess.v0"} -> "artifact"
    [] m = "verify.rules.v0" -> "rules"
    [] m = "pack.v0" -> "pack"
IsJsonProfile(c) ==
  c.kind = "json" /\ HasKey(c.obj, "schema_version") /\ HasKey(c.obj, "profile_id")
IsTextProfile(c) == c.kind = "raw" /\ c.raw = 4

\* the first matching rule of the five
FirstRule(c, path) ==
  IF MarkerOf(c) # <<>> THEN 1
  ELSE IF IsJsonProfile(c) THEN 2
  ELSE IF IsTextProfile(c) THEN 3
  ELSE IF is_registry_path(path) THEN 4
  ELSE 5
RuleResult(rule, c) ==
  CASE rule = 1 -> MemberTypeResult(Lit(TypeOfMarker(MarkerOf(c)[1])), <<Lit(MarkerOf(c)[1])>>)
    [] rule \in {2, 3} -> MemberTypeResult(Lit("profile"), <<>>)
    [] rule = 4 -> MemberTypeResult(Lit("registry"), <<>>)
    [] rule = 5 -> MemberTypeResult(Lit("other"), <<>>)

\* C22: Classifier precedence.  What the classifier returns for a path and
\* bytes is the result of the first rule that matches, in the order: JSON
\* object with a recognized marker as "version"; JSON with schema_version and
\* profile_id at the top level; text with lines schema_version: and
\* profile_id:; registry path; other.
ClassifierPrecedence ==
  detected # <<>> =>
    detected[1] = RuleResult(FirstRule(artifact.content, artifact.path), artifact.content)

\* the same without the second rule: a JSON document with schema_version
\* and profile_id is classified by the rules after it
ClassifierPrecedenceNoJsonProfile ==
  detected # <<>> =>
    LET rule == FirstRule(artifact.content, artifact.path)
    IN  detected[1] = IF rule # 2 THEN RuleResult(rule, artifact.content)
                      ELSE IF is_registry_path(artifact.path)
                      THEN RuleResult(4, artifact.content)
                      ELSE RuleResult(5, artifact.content)

\* a recognized marker wins over a registry path
ClassifierMarkerFirstWitness ==
  /\ detected # <<>>
  /\ detected[1].member_type = Lit("lockfile")
  /\ is_registry_path(artifact.path)

\* ------------------------------------------------------------------ C23
\* declared member i has an artifact_version that is a recognized marker
KnownVersion(i) ==
  /\ OnDisk.members[i].artifact_version # <<>>
  /\ OnDisk.members[i].artifact_version[1].s \in {<<v>> : v \in KnownMarkers}
\* it has content on disk and the validator of its version rejects it
FailsSchema(i) ==
  /\ KnownVersion(i)
  /\ ReadFile(fs, FinalDir, OnDisk.members[i].path) # <<>>
  /\ Validate(OnDisk.members[i].artifact_version[1].s[1],
              ReadFile(fs, FinalDir, OnDisk.members[i].path)[1]) # <<>>
SchemaViolations == SelectSeq(report.invalid, LAMBDA f : f.code = "SCHEMA_VIOLATION")
RECURSIVE FailingFrom(_)
\* the declared members that fail their schema, from member i on
FailingFrom(i) ==
  IF i > Len(OnDisk.members) THEN <<>>
  ELSE (IF FailsSchema(i) THEN <<i>> ELSE <<>>) \o FailingFrom(i + 1)

\* C23: Schema validation tri-state.  In a report verify gives for a manifest
\* it accepts, schema_validation is "skipped" exactly when no declared
\* member has a known artifact_version; otherwise it is "fail" exactly when
\* a member with a known artifact_version has content on disk that its
\* validator rejects, and "pass" if none has; the SCHEMA_VIOLATION findings
\* are one for each such member, with its path, and there is none unless
\* schema_validation is "fail".
SchemaTriState ==
  (Verified /\ Accepted) =>
    LET known == {i \in DOMAIN OnDisk.members : KnownVersion(i)}
        failing == FailingFrom(1)
    IN  /\ report.checks.schema_validation \in {"skipped", "pass", "fail"}
        /\ (report.checks.schema_validation = "skipped" <=> known = {})
        /\ known # {} => (report.checks.schema_validation = "fail" <=> failing # <<>>)
        /\ Len(SchemaViolations) = Len(failing)
        /\ \A k \in DOMAIN failing :
             SchemaViolations[k].path = <<OnDisk.members[failing[k]].path>>
        /\ (SchemaViolations # <<>> => report.checks.schema_validation = "fail")

\* a pack with a valid lock whose manifest was edited to call a text member
\* a lock too: one member passes, one fails, one finding
SchemaTriStateWitness ==
  /\ Verified /\ Accepted
  /\ report.checks.schema_validation = "fail"
  /\ Len(SchemaViolations) = 1
  /\ Cardinality({i \in DOMAIN OnDisk.members : KnownVersion(i)}) = 2

\* a member with a known version whose file is gone: nothing to validate, pass
SchemaPassUnreadWitness ==
  /\ Verified /\ Accepted
  /\ report.checks.schema_validation = "pass"
  /\ \E i \in DOMAIN OnDisk.members :
       KnownVersion(i) /\ ReadFile(fs, FinalDir, OnDisk.members[i].path) = <<>>

\* a pack of an unknown marker and text: skipped
SchemaSkippedWitness ==
  /\ Verified /\ Accepted
  /\ report.checks.schema_validation = "skipped"
  /\ OnDisk.members # <<>>

\* ------------------------------------------------------------------ C24
VersionedTypes == {Lit("lockfile"), Lit("report"), Lit("artifact"), Lit("rules"), Lit("pack")}
\* seal has produced its member descriptors
Finalized == sealPc \in {"promote", "fallback", "done"}
\* the bytes member i of the finalized manifest was made from
SourceBytes(i) == src[candidates[i].source].data
\* the string in the "version" field of a JSON document, <<>> when none
VersionField(c) ==
  IF c.kind = "json" /\ HasKey(c.obj, "version") /\ Get(c.obj, "version").t = "str"
  THEN <<Get(c.obj, "version")>>
  ELSE <<>>

ArtifactVersionKnownWitness ==
  /\ sealPc = "done" /\ result.status = "PACK_CREATED"
  /\ \E i \in DOMAIN manifest.members :
       manifest.members[i].artifact_version = <<Lit("lock.v0")>>

\* ------------------------------------------------------------------ C25
\* the target directory and what is below it are as they were before seal
TargetUntouched ==
  \/ FinalDir \notin DOMAIN fs /\ FinalDir \notin DOMAIN fs0
  \/ /\ FinalDir \in DOMAIN fs /\ FinalDir \in DOMAIN fs0
     /\ Subtree(fs, FinalDir) = Subtree(fs0, FinalDir)
StagedManifest == StagingDir \o <<"manifest.json">> \in DOMAIN fs
\* the first three parts of the claim: writes come after the collision
\* check, manifest.json after the last member, the target after manifest.json
StepsInOrder ==
  /\ sealPc \in {"collect", "collision"} => fs = fs0
  /\ StagedManifest =>
       /\ Len(copied) = Len(candidates)
       /\ \A i \in DOMAIN copied :
            /\ StagingDir \o copied[i].member_path \in DOMAIN fs
            /\ fs[StagingDir \o copied[i].member_path].data = src[candidates[i].source].data
            /\ copied[i].bytes_hash = Sha256String(src[candidates[i].source].data)
  /\ sealPc \in {"collect", "collision", "stage", "copy"} => (TargetUntouched /\ ~StagedManifest)

\* C25: Seal step ordering.  In every seal the steps come in the order
\* collect, collision check, copy and hash, finalize, write manifest,
\* promote: nothing is written before the collision check has passed,
\* manifest.json is written to staging only when every member is copied and
\* hashed, nothing is created at the target before manifest.json is in
\* staging, and whenever seal refuses, the target holds nothing seal wrote.
SealStepOrdering ==
  /\ StepsInOrder
  /\ sealPc = "refused" => TargetUntouched

\* the order of the steps alone, and the refusals that come before the
\* fallback copy
SealStepOrderingBeforeFallback ==
  /\ StepsInOrder
  /\ (sealPc = "refused" /\ cpStack = <<>>) => TargetUntouched

\* seal is about to promote a staging directory with two members and
\* manifest.json
SealStepOrderingWitness ==
  /\ sealPc = "promote"
  /\ StagedManifest
  /\ Len(copied) = 2
  /\ TargetUntouched

\* ------------------------------------------------------------------ C26
\* C26: Staging lifetime.  When seal has returned, with a pack or with a
\* refusal, the staging directory no longer exists at its temporary
\* location: it was renamed onto the target, removed after the fallback
\* copy, or removed by the refusal.
StagingLifetime == SealDone => ~Exists(fs, StagingDir)

\* every refusal removes the staging directory, and a return without it is
\* a return after the rename
StagingRemovedOnRefusal == sealPc = "refused" => ~Exists(fs, StagingDir)
StagingRenamed ==
  (sealPc = "done" /\ ~Exists(fs, StagingDir)) =>
    /\ Exists(fs, FinalDir \o <<"manifest.json">>)
    /\ \A i \in DOMAIN copied : Exists(fs, FinalDir \o copied[i].member_path)

\* the fallback copy has completed and seal has returned the pack
StagingKeptWitness ==
  /\ sealPc = "done"
  /\ Exists(fs, StagingDir \o <<"manifest.json">>)
  /\ Exists(fs, FinalDir \o <<"manifest.json">>)
\* seal refused after it had staged a member
StagingRemovedWitness ==
  /\ sealPc = "refused"
  /\ Len(copied) >= 1
  /\ ~Exists(fs, StagingDir)

\* ------------------------------------------------------------------ C27
\* the check a finding comes from, in the order run_checks runs them
CheckRank(code) ==
  CASE code = "MEMBER_COUNT_MISMATCH" -> 1
    [] code \in {"RESERVED_MEMBER_PATH", "DUPLICATE_MEMBER_PATH", "UNSAFE_MEMBER_PATH"} -> 2
    [] code \in {"MISSING_MEMBER", "NON_REGULAR_MEMBER", "HASH_MISMATCH"} -> 3
    [] code = "EXTRA_MEMBER" -> 4
    [] code = "PACK_ID_MISMATCH" -> 5
    [] OTHER -> 6
GroupedByCheck(findings) ==
  \A i, j \in DOMAIN findings : i < j => CheckRank(findings[i].code) <= CheckRank(findings[j].code)
FindingSet(findings) == {findings[i] : i \in DOMAIN findings}

\* C27: Deterministic findings.  For a fixed state of the pack directory
\* verify reports the same sequence of findings on every run, grouped by
\* check in the fixed order of the checks, whatever order the file system
\* enumerates a directory in.
DeterministicFindings ==
  report # NoReport =>
    /\ GroupedByCheck(report.invalid)
    /\ \A asc \in BOOLEAN : report = execute_verify(fs, FinalDir, asc)

\* what does hold: the groups come in the order of the checks, and the
\* findings are the same up to the order inside the EXTRA_MEMBER group
FindingsUpToExtraOrder ==
  report # NoReport =>
    /\ GroupedByCheck(report.invalid)
    /\ \A asc \in BOOLEAN :
         LET other == execute_verify(fs, FinalDir, asc)
         IN  /\ [report EXCEPT !.invalid = <<>>] = [other EXCEPT !.invalid = <<>>]
             /\ FindingSet(report.invalid) = FindingSet(other.invalid)
             /\ Len(report.invalid) = Len(other.invalid)
             /\ SelectSeq(report.invalid, LAMBDA f : f.code # "EXTRA_MEMBER")
                  = SelectSeq(other.invalid, LAMBDA f : f.code # "EXTRA_MEMBER")

\* verify has reported two files the manifest does not declare
TwoExtraWitness ==
  /\ report.outcome = "INVALID"
  /\ Len(SelectSeq(report.invalid, LAMBDA f : f.code = "EXTRA_MEMBER")) = 2

\* ------------------------------------------------------------------ C28
\* a location next to the pack directory, where "../a" leads from the pack
\* root, and file systems that are fs inside the pack directory and hold
\* some file there
OutsidePath == Parent(FinalDir) \o <<"a">>
OutsideVariants ==
  IF IsDir(fs, Parent(FinalDir)) /\ ~IsDir(fs, OutsidePath)
  THEN {Put(fs, OutsidePath, FileNode(c)) : c \in {Raw(1), Raw(2)}}
  ELSE {}
Escapes(path) ==
  \/ Len(path) > 1 /\ path[1] = ""
  \/ \E k \in 1..Len(path) : path[k] = ".."

\* C28: Verify confinement.  The report depends on the pack directory
\* alone: a declared member whose path is absolute or has a ".." segment
\* gets UNSAFE_MEMBER_PATH and no finding that comes from looking at the
\* place the path leads to, and a file system that differs from this one
\* outside the pack directory only gives the same report.
VerifyConfinement ==
  Accepted =>
    /\ \A i \in 1..Len(OnDisk.members) :
         Escapes(OnDisk.members[i].path) =>
           /\ HasFinding("UNSAFE_MEMBER_PATH", <<OnDisk.members[i].path>>)
           /\ \A k \in DOMAIN report.invalid :
                report.invalid[k].path = <<OnDisk.members[i].path>> =>
                  report.invalid[k].code \in {"UNSAFE_MEMBER_PATH", "DUPLICATE_MEMBER_PATH"}
    /\ \A t \in OutsideVariants, asc \in BOOLEAN :
         LET there == execute_verify(t, FinalDir, asc)
         IN  /\ there = execute_verify(fs, FinalDir, asc)
             /\ \A k \in DOMAIN there.invalid :
                  (there.invalid[k].path # <<>> /\ Escapes(there.invalid[k].path[1])) =>
                    there.invalid[k].actual = <<>>

\* the same for the packs whose manifest declares no escaping path
VerifyConfinementSafePaths ==
  (Accepted /\ \A i \in 1..Len(OnDisk.members) : ~Escapes(OnDisk.members[i].path)) =>
    \A t \in OutsideVariants, asc \in BOOLEAN :
      execute_verify(t, FinalDir, asc) = execute_verify(fs, FinalDir, asc)
\* every escaping path does get UNSAFE_MEMBER_PATH
EscapingPathReported ==
  Accepted =>
    \A i \in 1..Len(OnDisk.members) :
      Escapes(OnDisk.members[i].path) =>
        HasFinding("UNSAFE_MEMBER_PATH", <<OnDisk.members[i].path>>)

\* verify has looked at the place an escaping path leads to
EscapingPathWitness ==
  /\ Accepted
  /\ HasFinding("UNSAFE_MEMBER_PATH", << <<"..", "a">> >>)
  /\ HasFinding("MISSING_MEMBER", << <<"..", "a">> >>)

\* ------------------------------------------------------------------ C29
\* p names a directory that q lies below
ProperPrefix(p, q) == Len(p) < Len(q) /\ SubSeq(q, 1, Len(p)) = p
PrefixConflict(paths) == \E i, j \in DOMAIN paths : ProperPrefix(paths[i], paths[j])
CandidatePaths == [i \in DOMAIN candidates |-> candidates[i].member_path]

BothOk == \A p \in Procs : writers[p].pc = "ok"
LedgerBefore == SelectSeq(ledgerFile, LAMBDA x : x.by = 0)
Appended(records) == SubSeq(records, Len(read_ledger(LedgerBefore)) + 1, Len(records))

\* C30: Concurrent appends.  When two processes have called append_witness
\* at the same time and both have returned Ok, then however their writes to
\* the file interleaved, the ledger holds the two records, each as one whole
\* JSON object on a line of its own: the readers find the records that were
\* there before, in place, and exactly the two new ones after them.
ConcurrentAppends ==
  BothOk =>
    LET after == read_ledger(ledgerFile)
        before == read_ledger(LedgerBefore)
    IN  /\ Len(after) = Len(before) + 2
        /\ SubSeq(after, 1, Len(before)) = before
        /\ \E p, q \in Procs :
             p # q /\ Appended(after) = <<writers[p].record, writers[q].record>>
        /\ \A i \in DOMAIN SplitLines(ledgerFile, <<>>) :
             ParsesAsRecord(SplitLines(ledgerFile, <<>>)[i])

\* what the writes do keep: the file only grows, at the end; every record
\* that was readable before stays readable in its place; and when both have
\* returned Ok each one's text and line feed are in the file
AppendsKeepEarlierRecords ==
  LET after == read_ledger(ledgerFile)
      before == read_ledger(LedgerBefore)
  IN  /\ SubSeq(ledgerFile, 1, Len(LedgerBefore)) = LedgerBefore
      /\ Len(after) >= Len(before)
      /\ SubSeq(after, 1, Len(before)) = before
      /\ BothOk =>
           \A p \in Procs :
             /\ \E i \in DOMAIN ledgerFile : ledgerFile[i] = JsonPiece(p, writers[p].record)
             /\ \E i \in DOMAIN ledgerFile : ledgerFile[i] = NewlinePiece(p)
\* and an append that ran alone between open and Ok left its record whole
WholeLine(p) ==
  \E i \in DOMAIN ledgerFile :
    /\ ledgerFile[i] = JsonPiece(p, writers[p].record)
    /\ i < Len(ledgerFile) /\ ledgerFile[i + 1] = NewlinePiece(p)
    /\ i > 1 => ledgerFile[i - 1].nl
AppendsNotInterleaved ==
  (BothOk /\ \A p \in Procs : WholeLine(p)) =>
    /\ Len(read_ledger(ledgerFile)) = Len(read_ledger(LedgerBefore)) + 2
    /\ \A p \in Procs : \E i \in DOMAIN read_ledger(ledgerFile) :
         read_ledger(ledgerFile)[i] = writers[p].record

\* both appends returned Ok and the two records share a line no reader can
\* parse
InterleavedAppendsWitness ==
  /\ BothOk
  /\ Len(read_ledger(ledgerFile)) = Len(read_ledger(LedgerBefore))
\* both appends returned Ok one after the other
SequentialAppendsWitness ==
  /\ BothOk
  /\ \A p \in Procs : WholeLine(p)
  /\ Len(read_ledger(ledgerFile)) = Len(read_ledger(LedgerBefore)) + 2


====
